---- MODULE Spec2Model ----
(***************************************************************************)
(* Inventory-and-order ledger of the StreetCaps API: sales (ventas),       *)
(* purchases (compras), returns (devoluciones) and the per-size stock      *)
(* counters (Tallas.Cantidad) and per-product counters (Productos.Stock).  *)
(*                                                                         *)
(* Every request handler opens a Sequelize transaction, reads WITHOUT the  *)
(* transaction (committed rows, PostgreSQL READ COMMITTED) and writes WITH *)
(* it.  A handler is split at its awaits into steps; a write made with     *)
(* { transaction } takes the row's lock and stays in the transaction's     *)
(* write list until commit; rollback drops the list.                       *)
(***************************************************************************)
EXTENDS Integers, Sequences, FiniteSets, TLC

VARIABLES db, pc, loc, tx, resp

vars == <<db, pc, loc, tx, resp>>

----------------------------------------------------------------------------
(* Bounds of the model *)

MaxLineas == 2
MaxCant == 2
StockInicial == 3
MaxVentas == 1
MaxCompras == 1
MaxDevoluciones == 2
TopeStock == 4

Procs == {"p1", "p2"}

(* Catalogue: size t belongs to product TallaProducto[t] *)
Productos == {1, 2}
Tallas == {1, 2}
TallaProducto == <<1, 2>>
PrecioVenta == <<2, 3>>

(* Clientes / Proveedores: id 1 is active, id 2 is inactive, 0 is "missing" *)
ContraparteActiva == <<TRUE, FALSE>>
IdsContraparte == {0, 1, 2}

(* Venta.IdEstado values *)
EstadoCompletada == 1
EstadoPendiente == 2
EstadoAnulada == 3

----------------------------------------------------------------------------
(* Generic helpers *)

RECURSIVE SumSeq(_)
SumSeq(s) == IF s = <<>> THEN 0 ELSE Head(s) + SumSeq(Tail(s))

MinSet(S) == CHOOSE x \in S : \A y \in S : x <= y

----------------------------------------------------------------------------
(* The database: committed rows.  Primary keys are the positions in the   *)
(* sequences (autoincrement).                                              *)

DbInicial ==
    [ talla    |-> [t \in Tallas |-> StockInicial],
      stock    |-> [pr \in Productos |-> StockInicial],
      precio   |-> [pr \in Productos |-> PrecioVenta[pr]],
      productoEstado |-> [pr \in Productos |-> TRUE],
      tallaEstado |-> [t \in Tallas |-> TRUE],
      ventas   |-> <<>>,
      detVentas |-> <<>>,
      compras  |-> <<>>,
      detCompras |-> <<>>,
      devs     |-> <<>> ]

(* Model.increment / Model.decrement: UPDATE ... SET col = col + n.  No    *)
(* model validator runs on a static increment, so the result may be < 0.   *)
IncrementTalla(d, t, n) == [d EXCEPT !.talla[t] = @ + n]

IncrementStock(d, pr, n) == [d EXCEPT !.stock[pr] = @ + n]

(* Venta.create followed by one DetalleVenta.create per detalle *)
InsertVenta(d, total, estado, dets) ==
    LET id == Len(d.ventas) + 1
    IN [d EXCEPT !.ventas = Append(@, [Total |-> total, IdEstado |-> estado]),
                 !.detVentas = @ \o [i \in 1..Len(dets) |->
                                      [IdVenta |-> id] @@ dets[i]]]

InsertCompra(d, total, dets) ==
    LET id == Len(d.compras) + 1
    IN [d EXCEPT !.compras = Append(@, [Total |-> total, Estado |-> TRUE]),
                 !.detCompras = @ \o [i \in 1..Len(dets) |->
                                       [IdCompra |-> id] @@ dets[i]]]

InsertDevolucion(d, rec) == [d EXCEPT !.devs = Append(@, rec)]

InsertDetalle(d, rec) == [d EXCEPT !.detVentas = Append(@, rec)]

(* A row that detalle.destroy() removed: its key stays used and no query  *)
(* finds it                                                                 *)
DetalleBorrado ==
    [IdVenta |-> 0, IdProducto |-> 0, IdTalla |-> 0, Cantidad |-> 0, Precio |-> 0,
     Subtotal |-> 0, Devuelto |-> FALSE, CantidadDevuelta |-> 0]

(* DetalleVenta.findByPk(id) finds a row *)
DetalleExiste(d, id) == id \in 1..Len(d.detVentas) /\ d.detVentas[id] # DetalleBorrado

(* instance.update / instance.save of one column of a catalogue row *)
SetColumna(d, col, id, v) == [d EXCEPT ![col][id] = v]

(* instance.update(fields): the named columns of one row are overwritten *)
UpdateRow(d, tabla, id, campos) ==
    [d EXCEPT ![tabla][id] = campos @@ @]

Apply(d, op) ==
    CASE op.k = "incTalla" -> IncrementTalla(d, op.t, op.n)
      [] op.k = "incStock" -> IncrementStock(d, op.pr, op.n)
      [] op.k = "insVenta" -> InsertVenta(d, op.total, op.estado, op.dets)
      [] op.k = "insCompra" -> InsertCompra(d, op.total, op.dets)
      [] op.k = "insDev" -> InsertDevolucion(d, op.rec)
      [] op.k = "insDet" -> InsertDetalle(d, op.rec)
      [] op.k = "upd" -> UpdateRow(d, op.tabla, op.id, op.campos)
      [] op.k = "set" -> SetColumna(d, op.col, op.id, op.v)

RECURSIVE ApplyAll(_, _)
ApplyAll(d, ops) ==
    IF ops = <<>> THEN d ELSE ApplyAll(Apply(d, Head(ops)), Tail(ops))

(* The rows a write locks until its transaction ends *)
RowsOf(op) ==
    CASE op.k = "incTalla" -> {<<"talla", op.t>>}
      [] op.k = "incStock" -> {<<"stock", op.pr>>}
      [] op.k = "upd" -> {<<op.tabla, op.id>>}
      [] op.k = "set" -> {<<IF op.col \in {"precio", "productoEstado"} THEN "stock"
                             ELSE IF op.col = "tallaEstado" THEN "talla"
                             ELSE op.col, op.id>>}
      [] OTHER -> {}

----------------------------------------------------------------------------
(* Catalogue reads (Producto.findByPk, Talla.findOne, Cliente.findByPk)    *)

ProductoExiste(d, pr) == pr \in Productos

ProductoActivo(d, pr) == d.productoEstado[pr]

(* Talla.findOne({ where: { IdTalla, IdProducto } }) finds a row *)
TallaExiste(d, t, pr) == t \in Tallas /\ TallaProducto[t] = pr

TallaActiva(d, t) == d.tallaEstado[t]

(* producto.PrecioVenta, or PrecioOferta when EnOferta; no product is on offer *)
PrecioUnitario(d, pr) == d.precio[pr]

ContraparteValida(id) == id \in DOMAIN ContraparteActiva /\ ContraparteActiva[id]

----------------------------------------------------------------------------
(* Request handlers in flight.  pc[p] is the await the handler p stands    *)
(* at, loc[p] its locals, tx[p] its transaction, resp[p] the last response *)
(* it sent: the handler (op), the outcome (st), the row it is about (id),   *)
(* the await the handler stood at (at), the number of writes its           *)
(* transaction held by then (escritos), what the message of the response   *)
(* names (msg) and the counters the call started from (pre).               *)

NoLoc == [op |-> "none"]
NoTx == [locks |-> {}, writes |-> <<>>]
NoResp == [op |-> "none", st |-> "none", id |-> 0, at |-> "idle"]

Init ==
    /\ db = DbInicial
    /\ pc = [p \in Procs |-> "idle"]
    /\ loc = [p \in Procs |-> NoLoc]
    /\ tx = [p \in Procs |-> NoTx]
    /\ resp = [p \in Procs |-> NoResp]

EnCurso(op) == Cardinality({q \in Procs : loc[q].op = op})

(* What a response remembers of the state the call started from *)
Contadores(d) ==
    [talla |-> d.talla, stock |-> d.stock,
     devs |-> [i \in 1..Len(d.devs) |-> d.devs[i].Estado],
     devueltas |-> [i \in 1..Len(d.detVentas) |-> d.detVentas[i].CantidadDevuelta]]

(* sequelize.transaction() and the handler's first reads *)
Begin(p, op, id, siguiente, locals) ==
    /\ pc' = [pc EXCEPT ![p] = siguiente]
    /\ loc' = [loc EXCEPT ![p] = [op |-> op, id |-> id, pre |-> db] @@ locals]
    /\ UNCHANGED <<db, tx, resp>>

(* The handler answers: the response is recorded, the handler's locals and *)
(* its transaction object are gone.                                         *)
ResponderCon(p, op, st, id, pre, msg) ==
    /\ pc' = [pc EXCEPT ![p] = "idle"]
    /\ loc' = [loc EXCEPT ![p] = NoLoc]
    /\ tx' = [tx EXCEPT ![p] = NoTx]
    /\ resp' = [resp EXCEPT ![p] = [op |-> op, st |-> st, id |-> id, at |-> pc[p],
                                    escritos |-> Len(tx[p].writes), msg |-> msg,
                                    pre |-> Contadores(pre)]]

(* A response whose message names nothing of the request *)
NoMsg == <<>>

Responder(p, op, st, id, pre) == ResponderCon(p, op, st, id, pre, NoMsg)

(* transaction.rollback() then res.status(4xx).json(...) in the handler's  *)
(* first step, before any write.                                            *)
RechazarAlInicio(p, op, id, st) ==
    /\ Responder(p, op, st, id, db)
    /\ UNCHANGED db

(* mutant: the rejection commits what the transaction holds *)
Rechazar_SinRollback(p, st) ==
    /\ Responder(p, loc[p].op, st, loc[p].id, loc[p].pre)
    /\ db' = ApplyAll(db, tx[p].writes)

(* transaction.rollback() then res.status(4xx).json(...) *)
Rechazar(p, st) ==
    /\ Responder(p, loc[p].op, st, loc[p].id, loc[p].pre)
    /\ UNCHANGED db

(* transaction.rollback() then the 400 of `Stock insuficiente para ...`,   *)
(* msg being the values the message text is built from                      *)
RechazarStock(p, msg) ==
    /\ ResponderCon(p, loc[p].op, "stock", loc[p].id, loc[p].pre, msg)
    /\ UNCHANGED db

Bloqueado(p, rows) == \E q \in Procs \ {p} : tx[q].locks \cap rows # {}

RECURSIVE RowsOfAll(_)
RowsOfAll(ops) == IF ops = <<>> THEN {} ELSE RowsOf(Head(ops)) \cup RowsOfAll(Tail(ops))

(* mutant: the write is not given the transaction *)
EscribirEnTx_Autocommit(p, ops) ==
    /\ ~Bloqueado(p, RowsOfAll(ops))
    /\ db' = ApplyAll(db, ops)
    /\ UNCHANGED tx

(* A write given { transaction }: waits for the rows' locks, then joins    *)
(* the transaction's write list.                                            *)
EscribirEnTx(p, ops) ==
    /\ ~Bloqueado(p, RowsOfAll(ops))
    /\ tx' = [tx EXCEPT ![p] = [locks |-> @.locks \cup RowsOfAll(ops),
                                writes |-> @.writes \o ops]]
    /\ UNCHANGED db

(* The last writes `ops` of the handler (given the transaction), then      *)
(* transaction.commit() and the success response.                           *)
CommitYResponder(p, ops, id) ==
    /\ ~Bloqueado(p, RowsOfAll(ops))
    /\ db' = ApplyAll(db, tx[p].writes \o ops)
    /\ Responder(p, loc[p].op, "ok", id, loc[p].pre)

(* mutant: the catch block answers 500 without transaction.rollback() *)
Fallo_SinRollback(p) ==
    /\ pc[p] # "idle"
    /\ pc' = [pc EXCEPT ![p] = "idle"]
    /\ resp' = [resp EXCEPT ![p] = [op |-> loc[p].op, st |-> "error", id |-> loc[p].id,
                                    at |-> pc[p], escritos |-> Len(tx[p].writes),
                                    msg |-> NoMsg, pre |-> Contadores(loc[p].pre)]]
    /\ loc' = [loc EXCEPT ![p] = NoLoc]
    /\ UNCHANGED <<db, tx>>

(* catch (error) { await transaction.rollback(); res.status(500)... }:     *)
(* a storage error, a timeout or a lock-wait/deadlock abort at an await.   *)
Fallo(p) ==
    /\ pc[p] # "idle"
    /\ Rechazar(p, "error")

(* The rows the write that handler p stands at asks the lock of *)
FilasQueEspera(p) ==
    CASE pc[p] \in {"cv_dec", "cc_inc"} -> {<<"talla", loc[p].item.IdTalla>>}
      [] pc[p] = "ac_dec" -> {<<"talla", loc[p].dets[loc[p].i].IdTalla>>}
      [] pc[p] = "ac_update" -> {<<"compras", loc[p].id>>}
      [] pc[p] = "cd_escribir" -> {<<"stock", loc[p].IdProducto>>}
      [] pc[p] = "cd_commit" -> {<<"detVentas", loc[p].dv>>}
      [] OTHER -> {}

(* p waits for a row that q has locked while q waits for a row of p *)
Interbloqueo(p) ==
    \E q \in Procs \ {p} :
        /\ tx[q].locks \cap FilasQueEspera(p) # {}
        /\ tx[p].locks \cap FilasQueEspera(q) # {}

(* The database's deadlock detector aborts a transaction of the cycle: the *)
(* awaited query throws and the handler ends in its catch block.           *)
AbortoPorInterbloqueo(p) ==
    /\ Interbloqueo(p)
    /\ Fallo(p)

----------------------------------------------------------------------------
(* ventas.controller.js: createVenta.  The request has n lines; loc.item  *)
(* is the line of req.body.productos the loop stands at.                    *)

Items == [IdProducto : Productos, IdTalla : Tallas, Cantidad : 0..MaxCant]

CreateVenta(p, IdCliente, n, item) ==
    /\ pc[p] = "idle"
    /\ IF IdCliente = 0 \/ n = 0 \/ ~ContraparteValida(IdCliente)
       THEN RechazarAlInicio(p, "createVenta", 0, "validation")
       ELSE Begin(p, "createVenta", 0, "cv_item",
                  [n |-> n, i |-> 1, item |-> item, dets |-> <<>>, total |-> 0])

(* lines 237-292: one iteration of the loop up to detalles.push *)
CvItem(p) ==
    /\ pc[p] = "cv_item"
    /\ LET item == loc[p].item
           pr == item.IdProducto
           t == item.IdTalla
           precioUnitario == PrecioUnitario(db, pr)
           subtotal == item.Cantidad * precioUnitario
       IN IF ~ProductoExiste(db, pr) THEN Rechazar(p, "referential")
          ELSE IF ~ProductoActivo(db, pr) THEN Rechazar(p, "validation")
          ELSE IF ~TallaExiste(db, t, pr) THEN Rechazar(p, "referential")
          ELSE IF ~TallaActiva(db, t) THEN Rechazar(p, "validation")
          ELSE IF db.talla[t] < item.Cantidad
               THEN RechazarStock(p, [Producto |-> pr, Talla |-> t,
                                      Disponible |-> db.talla[t]])
          ELSE IF item.Cantidad <= 0 THEN Rechazar(p, "validation")
          ELSE /\ pc' = [pc EXCEPT ![p] = "cv_dec"]
               /\ loc' = [loc EXCEPT ![p].total = @ + subtotal,
                                     ![p].dets = Append(@,
                                        [IdProducto |-> pr, IdTalla |-> t,
                                         Cantidad |-> item.Cantidad,
                                         Precio |-> precioUnitario,
                                         Subtotal |-> subtotal,
                                         Devuelto |-> FALSE,
                                         CantidadDevuelta |-> 0])]
               /\ UNCHANGED <<db, tx, resp>>

(* mutant: a size is decremented for the first of its lines only *)
CvDecrement_UnaVezPorTalla(p, sig) ==
    /\ pc[p] = "cv_dec"
    /\ LET item == loc[p].item
       IN IF <<"talla", item.IdTalla>> \in tx[p].locks
          THEN UNCHANGED <<db, tx>>
          ELSE EscribirEnTx(p, <<[k |-> "incTalla", t |-> item.IdTalla,
                                  n |-> -item.Cantidad]>>)
    /\ pc' = [pc EXCEPT ![p] = IF loc[p].i = loc[p].n THEN "cv_persist" ELSE "cv_item"]
    /\ loc' = [loc EXCEPT ![p].i = @ + 1,
                          ![p].item = IF loc[p].i = loc[p].n THEN @ ELSE sig]
    /\ UNCHANGED resp

(* lines 294-298: Talla.decrement('Cantidad', { by, where, transaction }) *)
(* and the loop's step to the next line `sig` of the request, if any       *)
CvDecrement(p, sig) ==
    /\ pc[p] = "cv_dec"
    /\ LET item == loc[p].item
       IN EscribirEnTx(p, <<[k |-> "incTalla", t |-> item.IdTalla, n |-> -item.Cantidad]>>)
    /\ pc' = [pc EXCEPT ![p] = IF loc[p].i = loc[p].n THEN "cv_persist" ELSE "cv_item"]
    /\ loc' = [loc EXCEPT ![p].i = @ + 1,
                          ![p].item = IF loc[p].i = loc[p].n THEN @ ELSE sig]
    /\ UNCHANGED resp

(* lines 301-322: Venta.create, DetalleVenta.create for each, commit *)
CvPersistir(p) ==
    /\ pc[p] = "cv_persist"
    /\ CommitYResponder(p, <<[k |-> "insVenta", total |-> loc[p].total,
                              estado |-> EstadoCompletada, dets |-> loc[p].dets]>>,
                        Len(db.ventas) + 1)

----------------------------------------------------------------------------
(* ventas.controller.js: createVentaCompleta (POST /api/ventas/completa),  *)
(* with no Descuento in the body                                            *)

CreateVentaCompleta(p, IdCliente, n, item) ==
    /\ pc[p] = "idle"
    /\ IF IdCliente = 0 \/ n = 0 \/ ~ContraparteValida(IdCliente)
       THEN RechazarAlInicio(p, "createVentaCompleta", 0, "validation")
       ELSE Begin(p, "createVentaCompleta", 0, "cvc_item",
                  [n |-> n, i |-> 1, item |-> item, dets |-> <<>>, total |-> 0])

(* lines 375-413: one iteration of the loop up to detalles.push *)
CvcItem(p) ==
    /\ pc[p] = "cvc_item"
    /\ LET item == loc[p].item
           pr == item.IdProducto
           t == item.IdTalla
           precioUnitario == PrecioUnitario(db, pr)
           itemSubtotal == item.Cantidad * precioUnitario
       IN IF ~ProductoExiste(db, pr) THEN Rechazar(p, "referential")
          ELSE IF ~TallaExiste(db, t, pr) THEN Rechazar(p, "referential")
          ELSE IF db.talla[t] < item.Cantidad
               THEN RechazarStock(p, [Producto |-> pr, Disponible |-> db.talla[t]])
          ELSE /\ pc' = [pc EXCEPT ![p] = "cvc_dec"]
               /\ loc' = [loc EXCEPT ![p].total = @ + itemSubtotal,
                                     ![p].dets = Append(@,
                                        [IdProducto |-> pr, IdTalla |-> t,
                                         Cantidad |-> item.Cantidad,
                                         Precio |-> precioUnitario,
                                         Subtotal |-> itemSubtotal,
                                         Devuelto |-> FALSE,
                                         CantidadDevuelta |-> 0])]
               /\ UNCHANGED <<db, tx, resp>>

(* lines 415-419: Talla.decrement and the loop's step to the next line *)
CvcDecrement(p, sig) ==
    /\ pc[p] = "cvc_dec"
    /\ LET item == loc[p].item
       IN EscribirEnTx(p, <<[k |-> "incTalla", t |-> item.IdTalla, n |-> -item.Cantidad]>>)
    /\ pc' = [pc EXCEPT ![p] = IF loc[p].i = loc[p].n THEN "cvc_persist" ELSE "cvc_item"]
    /\ loc' = [loc EXCEPT ![p].i = @ + 1,
                          ![p].item = IF loc[p].i = loc[p].n THEN @ ELSE sig]
    /\ UNCHANGED resp

(* lines 422-446: Venta.create, DetalleVenta.create for each, commit *)
CvcPersistir(p) ==
    /\ pc[p] = "cvc_persist"
    /\ CommitYResponder(p, <<[k |-> "insVenta", total |-> loc[p].total,
                              estado |-> EstadoCompletada, dets |-> loc[p].dets]>>,
                        Len(db.ventas) + 1)

----------------------------------------------------------------------------
(* ventas.controller.js: anularVenta *)

(* Venta.findByPk(id, { include: Detalles }): the sale's lines, by key *)
DetallesDeVenta(d, v) ==
    LET ids == {i \in 1..Len(d.detVentas) : d.detVentas[i].IdVenta = v}
        RECURSIVE Orden(_)
        Orden(S) == IF S = {} THEN <<>>
                    ELSE <<MinSet(S)>> \o Orden(S \ {MinSet(S)})
    IN [j \in 1..Cardinality(ids) |-> d.detVentas[Orden(ids)[j]]]

(* mutant: the check of line 486 is missing *)
AnularVenta_SinControl(p, id) ==
    /\ pc[p] = "idle"
    /\ IF id \notin 1..Len(db.ventas)
       THEN RechazarAlInicio(p, "anularVenta", id, "referential")
       ELSE LET dets == DetallesDeVenta(db, id)
            IN Begin(p, "anularVenta", id,
                     IF dets = <<>> THEN "av_update" ELSE "av_inc",
                     [i |-> 1, dets |-> dets])

(* lines 477-489 *)
AnularVenta(p, id) ==
    /\ pc[p] = "idle"
    /\ IF id \notin 1..Len(db.ventas)
       THEN RechazarAlInicio(p, "anularVenta", id, "referential")
       ELSE IF db.ventas[id].IdEstado = EstadoAnulada
       THEN RechazarAlInicio(p, "anularVenta", id, "state")
       ELSE LET dets == DetallesDeVenta(db, id)
            IN Begin(p, "anularVenta", id,
                     IF dets = <<>> THEN "av_update" ELSE "av_inc",
                     [i |-> 1, dets |-> dets])

(* mutant: a size already given back by an earlier line is skipped *)
AvIncrement_UnaPorTalla(p) ==
    /\ pc[p] = "av_inc"
    /\ LET det == loc[p].dets[loc[p].i]
           vista == \E j \in 1..(loc[p].i - 1) : loc[p].dets[j].IdTalla = det.IdTalla
       IN EscribirEnTx(p, <<[k |-> "incTalla", t |-> det.IdTalla,
                            n |-> IF vista THEN 0 ELSE det.Cantidad]>>)
    /\ pc' = [pc EXCEPT ![p] = IF loc[p].i = Len(loc[p].dets) THEN "av_update" ELSE "av_inc"]
    /\ loc' = [loc EXCEPT ![p].i = @ + 1]
    /\ UNCHANGED resp

(* lines 491-498: Talla.increment for one detalle of the loaded sale *)
AvIncrement(p) ==
    /\ pc[p] = "av_inc"
    /\ LET det == loc[p].dets[loc[p].i]
       IN EscribirEnTx(p, <<[k |-> "incTalla", t |-> det.IdTalla, n |-> det.Cantidad]>>)
    /\ pc' = [pc EXCEPT ![p] = IF loc[p].i = Len(loc[p].dets) THEN "av_update" ELSE "av_inc"]
    /\ loc' = [loc EXCEPT ![p].i = @ + 1]
    /\ UNCHANGED resp

AvUpdate_Elimina(p) ==
    /\ pc[p] = "av_update"
    /\ ~Bloqueado(p, {<<"ventas", loc[p].id>>})
    /\ db' = [ApplyAll(db, tx[p].writes) EXCEPT
                !.ventas = SubSeq(@, 1, loc[p].id - 1) \o SubSeq(@, loc[p].id + 1, Len(@))]
    /\ Responder(p, loc[p].op, "ok", loc[p].id, loc[p].pre)

(* lines 500-511: venta.update({ IdEstado: anulada, ... }), commit *)
AvUpdate(p) ==
    /\ pc[p] = "av_update"
    /\ CommitYResponder(p, <<[k |-> "upd", tabla |-> "ventas", id |-> loc[p].id,
                              campos |-> [IdEstado |-> EstadoAnulada]]>>, loc[p].id)

(* lines 592-623: actualizarEstado writes whatever idEstado the body holds *)
ActualizarEstado(p, id, idEstado) ==
    /\ pc[p] = "idle"
    /\ IF id \notin 1..Len(db.ventas)
       THEN RechazarAlInicio(p, "actualizarEstado", id, "referential")
       ELSE Begin(p, "actualizarEstado", id, "ae_update", [idEstado |-> idEstado])

AeUpdate(p) ==
    /\ pc[p] = "ae_update"
    /\ CommitYResponder(p, <<[k |-> "upd", tabla |-> "ventas", id |-> loc[p].id,
                              campos |-> [IdEstado |-> loc[p].idEstado]]>>, loc[p].id)

----------------------------------------------------------------------------
(* compras.controller.js: createCompra, anularCompra *)

ItemsCompra == [IdProducto : Productos, IdTalla : Tallas,
                Cantidad : 0..MaxCant, PrecioCompra : 0..1]

CreateCompra(p, IdProveedor, n, item) ==
    /\ pc[p] = "idle"
    /\ IF IdProveedor = 0 \/ n = 0 \/ ~ContraparteValida(IdProveedor)
       THEN RechazarAlInicio(p, "createCompra", 0, "validation")
       ELSE Begin(p, "createCompra", 0, "cc_item",
                  [n |-> n, i |-> 1, item |-> item, dets |-> <<>>, total |-> 0])

(* lines 128-163: one iteration of the loop up to detalles.push *)
CcItem(p) ==
    /\ pc[p] = "cc_item"
    /\ LET item == loc[p].item
           pr == item.IdProducto
           t == item.IdTalla
           subtotal == item.Cantidad * item.PrecioCompra
       IN IF ~ProductoExiste(db, pr) THEN Rechazar(p, "referential")
          ELSE IF ~TallaExiste(db, t, pr) THEN Rechazar(p, "referential")
          ELSE IF item.Cantidad <= 0 THEN Rechazar(p, "validation")
          ELSE IF item.PrecioCompra <= 0 THEN Rechazar(p, "validation")
          ELSE /\ pc' = [pc EXCEPT ![p] = "cc_inc"]
               /\ loc' = [loc EXCEPT ![p].total = @ + subtotal,
                                     ![p].dets = Append(@,
                                        [IdProducto |-> pr, IdTalla |-> t,
                                         Cantidad |-> item.Cantidad,
                                         PrecioCompra |-> item.PrecioCompra,
                                         PrecioVenta |-> PrecioUnitario(db, pr),
                                         Subtotal |-> subtotal])]
               /\ UNCHANGED <<db, tx, resp>>

(* mutant: the increment is run once more for the last line of the request *)
CcIncrement_UltimaDosVeces(p, sig) ==
    /\ pc[p] = "cc_inc"
    /\ LET item == loc[p].item
           op == [k |-> "incTalla", t |-> item.IdTalla, n |-> item.Cantidad]
       IN EscribirEnTx(p, IF loc[p].i = loc[p].n THEN <<op, op>> ELSE <<op>>)
    /\ pc' = [pc EXCEPT ![p] = IF loc[p].i = loc[p].n THEN "cc_persist" ELSE "cc_item"]
    /\ loc' = [loc EXCEPT ![p].i = @ + 1,
                          ![p].item = IF loc[p].i = loc[p].n THEN @ ELSE sig]
    /\ UNCHANGED resp

(* lines 165-169: Talla.increment('Cantidad', { by, where, transaction }) *)
(* and the loop's step to the next line `sig` of the request, if any       *)
CcIncrement(p, sig) ==
    /\ pc[p] = "cc_inc"
    /\ LET item == loc[p].item
       IN EscribirEnTx(p, <<[k |-> "incTalla", t |-> item.IdTalla, n |-> item.Cantidad]>>)
    /\ pc' = [pc EXCEPT ![p] = IF loc[p].i = loc[p].n THEN "cc_persist" ELSE "cc_item"]
    /\ loc' = [loc EXCEPT ![p].i = @ + 1,
                          ![p].item = IF loc[p].i = loc[p].n THEN @ ELSE sig]
    /\ UNCHANGED resp

(* lines 172-188: Compra.create, DetalleCompra.create for each, commit *)
CcPersistir(p) ==
    /\ pc[p] = "cc_persist"
    /\ CommitYResponder(p, <<[k |-> "insCompra", total |-> loc[p].total,
                              dets |-> loc[p].dets]>>,
                        Len(db.compras) + 1)

DetallesDeCompra(d, c) ==
    LET ids == {i \in 1..Len(d.detCompras) : d.detCompras[i].IdCompra = c}
        RECURSIVE Orden(_)
        Orden(S) == IF S = {} THEN <<>>
                    ELSE <<MinSet(S)>> \o Orden(S \ {MinSet(S)})
    IN [j \in 1..Cardinality(ids) |-> d.detCompras[Orden(ids)[j]]]

(* mutant: the cancel is refused when a size of the purchase is inactive *)
AnularCompra_Revalida(p, id) ==
    /\ pc[p] = "idle"
    /\ IF id \notin 1..Len(db.compras)
       THEN RechazarAlInicio(p, "anularCompra", id, "referential")
       ELSE IF ~db.compras[id].Estado
       THEN RechazarAlInicio(p, "anularCompra", id, "state")
       ELSE LET dets == DetallesDeCompra(db, id)
            IN IF \E i \in 1..Len(dets) : ~TallaActiva(db, dets[i].IdTalla)
               THEN RechazarAlInicio(p, "anularCompra", id, "validation")
               ELSE Begin(p, "anularCompra", id,
                          IF dets = <<>> THEN "ac_update" ELSE "ac_dec",
                          [i |-> 1, dets |-> dets])

(* lines 214-226 *)
AnularCompra(p, id) ==
    /\ pc[p] = "idle"
    /\ IF id \notin 1..Len(db.compras)
       THEN RechazarAlInicio(p, "anularCompra", id, "referential")
       ELSE IF ~db.compras[id].Estado
       THEN RechazarAlInicio(p, "anularCompra", id, "state")
       ELSE LET dets == DetallesDeCompra(db, id)
            IN Begin(p, "anularCompra", id,
                     IF dets = <<>> THEN "ac_update" ELSE "ac_dec",
                     [i |-> 1, dets |-> dets])

(* mutant: the cancel takes back one unit per line, whatever its Cantidad *)
AcDecrement_UnaUnidad(p) ==
    /\ pc[p] = "ac_dec"
    /\ LET det == loc[p].dets[loc[p].i]
       IN EscribirEnTx(p, <<[k |-> "incTalla", t |-> det.IdTalla, n |-> -1]>>)
    /\ pc' = [pc EXCEPT ![p] = IF loc[p].i = Len(loc[p].dets) THEN "ac_update" ELSE "ac_dec"]
    /\ loc' = [loc EXCEPT ![p].i = @ + 1]
    /\ UNCHANGED resp

(* lines 228-235: Talla.decrement for one detalle of the loaded purchase *)
AcDecrement(p) ==
    /\ pc[p] = "ac_dec"
    /\ LET det == loc[p].dets[loc[p].i]
       IN EscribirEnTx(p, <<[k |-> "incTalla", t |-> det.IdTalla, n |-> -det.Cantidad]>>)
    /\ pc' = [pc EXCEPT ![p] = IF loc[p].i = Len(loc[p].dets) THEN "ac_update" ELSE "ac_dec"]
    /\ loc' = [loc EXCEPT ![p].i = @ + 1]
    /\ UNCHANGED resp

(* lines 237-243: compra.update({ Estado: false, ... }), commit *)
AcUpdate(p) ==
    /\ pc[p] = "ac_update"
    /\ CommitYResponder(p, <<[k |-> "upd", tabla |-> "compras", id |-> loc[p].id,
                              campos |-> [Estado |-> FALSE]]>>, loc[p].id)

----------------------------------------------------------------------------
(* devoluciones.controller.js *)

(* Devolucion.sum('Cantidad', { where: { IdVenta, IdProducto, Estado: true } }) || 0 *)
SumaDevolucionesActivas(d, v, pr) ==
    SumSeq([i \in 1..Len(d.devs) |->
              IF d.devs[i].IdVenta = v /\ d.devs[i].IdProducto = pr /\ d.devs[i].Estado
              THEN d.devs[i].Cantidad ELSE 0])

(* DetalleVenta.findOne({ where: { IdVenta, IdProducto } }): LIMIT 1 with  *)
(* no ORDER BY, so any matching row may be the one returned.                *)
DetallesCoincidentes(d, v, pr) ==
    {i \in 1..Len(d.detVentas) :
        d.detVentas[i].IdVenta = v /\ d.detVentas[i].IdProducto = pr}

(* lines 513-599: validation and the reads of venta, producto, detalle *)
CreateDevolucion(p, IdVenta, IdProducto, Cantidad) ==
    /\ pc[p] = "idle"
    /\ IF IdVenta = 0 \/ IdProducto = 0 \/ Cantidad <= 0
       THEN RechazarAlInicio(p, "createDevolucion", 0, "validation")
       ELSE IF IdVenta \notin 1..Len(db.ventas) \/ ~ProductoExiste(db, IdProducto)
       THEN RechazarAlInicio(p, "createDevolucion", 0, "referential")
       ELSE IF DetallesCoincidentes(db, IdVenta, IdProducto) = {}
       THEN RechazarAlInicio(p, "createDevolucion", 0, "referential")
       ELSE \E dv \in DetallesCoincidentes(db, IdVenta, IdProducto) :
              IF Cantidad > db.detVentas[dv].Cantidad
              THEN RechazarAlInicio(p, "createDevolucion", 0, "state")
              ELSE Begin(p, "createDevolucion", 0, "cd_suma",
                         [IdVenta |-> IdVenta, IdProducto |-> IdProducto,
                          Cantidad |-> Cantidad, dv |-> dv,
                          detalleVenta |-> db.detVentas[dv], previas |-> 0])

(* lines 601-616: the sum of the active returns and the cumulative check *)
CdSuma(p) ==
    /\ pc[p] = "cd_suma"
    /\ LET l == loc[p]
           devolucionesPrevias == SumaDevolucionesActivas(db, l.IdVenta, l.IdProducto)
       IN IF devolucionesPrevias + l.Cantidad > l.detalleVenta.Cantidad
          THEN Rechazar(p, "state")
          ELSE /\ pc' = [pc EXCEPT ![p] = "cd_escribir"]
               /\ loc' = [loc EXCEPT ![p].previas = devolucionesPrevias]
               /\ UNCHANGED <<db, tx, resp>>

(* mutant: the amount is taken from the catalogue price of the product *)
CdEscribir_PrecioCatalogo(p) ==
    /\ pc[p] = "cd_escribir"
    /\ LET l == loc[p]
       IN EscribirEnTx(p, <<[k |-> "insDev",
                            rec |-> [IdProducto |-> l.IdProducto, IdVenta |-> l.IdVenta,
                                     Cantidad |-> l.Cantidad,
                                     Monto |-> l.Cantidad * PrecioUnitario(db, l.IdProducto),
                                     Estado |-> TRUE, Reembolsado |-> FALSE]],
                           [k |-> "incStock", pr |-> l.IdProducto, n |-> l.Cantidad]>>)
    /\ pc' = [pc EXCEPT ![p] = "cd_commit"]
    /\ UNCHANGED <<loc, resp>>

(* lines 618-637: Devolucion.create and Producto.increment('Stock') *)
CdEscribir(p) ==
    /\ pc[p] = "cd_escribir"
    /\ LET l == loc[p]
       IN EscribirEnTx(p, <<[k |-> "insDev",
                            rec |-> [IdProducto |-> l.IdProducto, IdVenta |-> l.IdVenta,
                                     Cantidad |-> l.Cantidad,
                                     Monto |-> l.Cantidad * l.detalleVenta.Precio,
                                     Estado |-> TRUE, Reembolsado |-> FALSE]],
                           [k |-> "incStock", pr |-> l.IdProducto, n |-> l.Cantidad]>>)
    /\ pc' = [pc EXCEPT ![p] = "cd_commit"]
    /\ UNCHANGED <<loc, resp>>

(* lines 639-645: detalleVenta.update({ CantidadDevuelta, Devuelto }), commit *)
CdCommit(p) ==
    /\ pc[p] = "cd_commit"
    /\ LET l == loc[p]
       IN CommitYResponder(p,
            <<[k |-> "upd", tabla |-> "detVentas", id |-> l.dv,
               campos |-> [CantidadDevuelta |-> l.previas + l.Cantidad,
                           Devuelto |-> (l.previas + l.Cantidad = l.detalleVenta.Cantidad)]]>>,
            Len(db.devs) + 1)

(* lines 866-883: toggleDevolucionStatus reads the return *)
ToggleDevolucionStatus(p, id) ==
    /\ pc[p] = "idle"
    /\ IF id \notin 1..Len(db.devs)
       THEN RechazarAlInicio(p, "toggleDevolucionStatus", id, "referential")
       ELSE Begin(p, "toggleDevolucionStatus", id, "td_stock", [devolucion |-> db.devs[id]])

(* mutant: the toggle moves the Cantidad of a size of the product *)
TdStock_EnTalla(p) ==
    /\ pc[p] = "td_stock"
    /\ LET dev == loc[p].devolucion
           t == CHOOSE u \in Tallas : TallaProducto[u] = dev.IdProducto
       IN EscribirEnTx(p, <<[k |-> "incTalla", t |-> t,
                            n |-> IF dev.Estado THEN -dev.Cantidad ELSE dev.Cantidad]>>)
    /\ pc' = [pc EXCEPT ![p] = "td_update"]
    /\ UNCHANGED <<loc, resp>>

(* lines 885-901: Producto.decrement or Producto.increment of 'Stock' *)
TdStock(p) ==
    /\ pc[p] = "td_stock"
    /\ LET dev == loc[p].devolucion
       IN EscribirEnTx(p, <<[k |-> "incStock", pr |-> dev.IdProducto,
                            n |-> IF dev.Estado THEN -dev.Cantidad ELSE dev.Cantidad]>>)
    /\ pc' = [pc EXCEPT ![p] = "td_update"]
    /\ UNCHANGED <<loc, resp>>

(* mutant: the update writes Estado: true whatever the row held *)
TdUpdate_SiempreActiva(p) ==
    /\ pc[p] = "td_update"
    /\ CommitYResponder(p, <<[k |-> "upd", tabla |-> "devs", id |-> loc[p].id,
                              campos |-> [Estado |-> TRUE]]>>,
                        loc[p].id)

(* lines 903-904: devolucion.update({ Estado: !devolucion.Estado }), commit *)
TdUpdate(p) ==
    /\ pc[p] = "td_update"
    /\ CommitYResponder(p, <<[k |-> "upd", tabla |-> "devs", id |-> loc[p].id,
                              campos |-> [Estado |-> ~loc[p].devolucion.Estado]]>>,
                        loc[p].id)

(* mutant: the handler does not look at devolucion.Estado *)
AnularDevolucion_SinMirarEstado(p, id) ==
    /\ pc[p] = "idle"
    /\ IF id \notin 1..Len(db.devs)
       THEN RechazarAlInicio(p, "anularDevolucion", id, "referential")
       ELSE Begin(p, "anularDevolucion", id, "ad_stock", [devolucion |-> db.devs[id]])

(* lines 812-830: anularDevolucion reads the return and rejects an annulled one *)
AnularDevolucion(p, id) ==
    /\ pc[p] = "idle"
    /\ IF id \notin 1..Len(db.devs)
       THEN RechazarAlInicio(p, "anularDevolucion", id, "referential")
       ELSE IF ~db.devs[id].Estado
       THEN RechazarAlInicio(p, "anularDevolucion", id, "state")
       ELSE Begin(p, "anularDevolucion", id, "ad_stock", [devolucion |-> db.devs[id]])

(* lines 832-837: Producto.decrement('Stock') *)
AdStock(p) ==
    /\ pc[p] = "ad_stock"
    /\ LET dev == loc[p].devolucion
       IN EscribirEnTx(p, <<[k |-> "incStock", pr |-> dev.IdProducto, n |-> -dev.Cantidad]>>)
    /\ pc' = [pc EXCEPT ![p] = "ad_update"]
    /\ UNCHANGED <<loc, resp>>

(* lines 839-845: devolucion.update({ Estado: false, ... }), commit *)
AdUpdate(p) ==
    /\ pc[p] = "ad_update"
    /\ CommitYResponder(p, <<[k |-> "upd", tabla |-> "devs", id |-> loc[p].id,
                              campos |-> [Estado |-> FALSE]]>>, loc[p].id)

(* lines 673-713: updateDevolucion reads the return; Estado is the body's *)
UpdateDevolucion(p, id, Estado) ==
    /\ pc[p] = "idle"
    /\ IF id \notin 1..Len(db.devs)
       THEN RechazarAlInicio(p, "updateDevolucion", id, "referential")
       ELSE Begin(p, "updateDevolucion", id, "upd_update", [Estado |-> Estado])

(* lines 715-720: devolucion.update({ Motivo, Estado }), commit *)
UpdUpdate(p) ==
    /\ pc[p] = "upd_update"
    /\ CommitYResponder(p, <<[k |-> "upd", tabla |-> "devs", id |-> loc[p].id,
                              campos |-> [Estado |-> loc[p].Estado]]>>, loc[p].id)

(* mutant: the handler does not look at devolucion.Reembolsado *)
ProcesarReembolso_SinMirarReembolsado(p, id) ==
    /\ pc[p] = "idle"
    /\ IF id \notin 1..Len(db.devs)
       THEN RechazarAlInicio(p, "procesarReembolso", id, "referential")
       ELSE IF ~db.devs[id].Estado
       THEN RechazarAlInicio(p, "procesarReembolso", id, "state")
       ELSE Begin(p, "procesarReembolso", id, "pr_update", [devolucion |-> db.devs[id]])

(* lines 752-781: procesarReembolso reads the return and rejects an       *)
(* annulled or an already refunded one                                      *)
ProcesarReembolso(p, id) ==
    /\ pc[p] = "idle"
    /\ IF id \notin 1..Len(db.devs)
       THEN RechazarAlInicio(p, "procesarReembolso", id, "referential")
       ELSE IF ~db.devs[id].Estado \/ db.devs[id].Reembolsado
       THEN RechazarAlInicio(p, "procesarReembolso", id, "state")
       ELSE Begin(p, "procesarReembolso", id, "pr_update", [devolucion |-> db.devs[id]])

(* lines 783-790: devolucion.update({ Reembolsado: true, ... }), commit *)
PrUpdate(p) ==
    /\ pc[p] = "pr_update"
    /\ CommitYResponder(p, <<[k |-> "upd", tabla |-> "devs", id |-> loc[p].id,
                              campos |-> [Reembolsado |-> TRUE]]>>, loc[p].id)

----------------------------------------------------------------------------
(* productos.controller.js: patchProducto with a PrecioVenta in the body *)

(* lines 287-295 *)
PatchProducto(p, id, precioVenta) ==
    /\ pc[p] = "idle"
    /\ IF ~ProductoExiste(db, id)
       THEN RechazarAlInicio(p, "patchProducto", id, "referential")
       ELSE Begin(p, "patchProducto", id, "pp_update", [PrecioVenta |-> precioVenta])

(* lines 297-298: producto.update(req.body, { transaction }), commit *)
PpUpdate(p) ==
    /\ pc[p] = "pp_update"
    /\ CommitYResponder(p, <<[k |-> "set", col |-> "precio", id |-> loc[p].id,
                              v |-> loc[p].PrecioVenta]>>, loc[p].id)

(* productos.controller.js lines 341-349: toggleProductoStatus *)
ToggleProductoStatus(p, id) ==
    /\ pc[p] = "idle"
    /\ IF ~ProductoExiste(db, id)
       THEN RechazarAlInicio(p, "toggleProductoStatus", id, "referential")
       ELSE Begin(p, "toggleProductoStatus", id, "tps_save",
                  [Estado |-> ~db.productoEstado[id]])

(* lines 351-353: producto.Estado = !producto.Estado; save, commit *)
TpsSave(p) ==
    /\ pc[p] = "tps_save"
    /\ CommitYResponder(p, <<[k |-> "set", col |-> "productoEstado", id |-> loc[p].id,
                              v |-> loc[p].Estado]>>, loc[p].id)

(* tallas.controller.js lines 335-349: toggleStatus *)
ToggleStatus(p, id) ==
    /\ pc[p] = "idle"
    /\ IF id \notin Tallas
       THEN RechazarAlInicio(p, "toggleStatus", id, "referential")
       ELSE Begin(p, "toggleStatus", id, "ts_update", [Estado |-> ~db.tallaEstado[id]])

(* lines 351-352: talla.update({ Estado: !talla.Estado }), commit *)
TsUpdate(p) ==
    /\ pc[p] = "ts_update"
    /\ CommitYResponder(p, <<[k |-> "set", col |-> "tallaEstado", id |-> loc[p].id,
                              v |-> loc[p].Estado]>>, loc[p].id)

(* lines 276-285: POST /api/detalleventas *)
CreateDetalle(p, IdVenta, IdProducto, IdTalla, Cantidad, Precio) ==
    /\ pc[p] = "idle"
    /\ IF IdVenta = 0 \/ IdProducto = 0 \/ Cantidad = 0 \/ Precio = 0
       THEN RechazarAlInicio(p, "createDetalle", 0, "validation")
       ELSE Begin(p, "createDetalle", 0, "cdt_create",
                  [detalle |-> [IdVenta |-> IdVenta, IdProducto |-> IdProducto,
                                IdTalla |-> IdTalla, Cantidad |-> Cantidad,
                                Precio |-> Precio, Subtotal |-> Cantidad * Precio,
                                Devuelto |-> FALSE, CantidadDevuelta |-> 0]])

(* lines 287-299: DetalleVenta.create, commit; the foreign key IdVenta of *)
(* the association refuses a line of a sale that does not exist (catch)   *)
CdtCreate(p) ==
    /\ pc[p] = "cdt_create"
    /\ IF loc[p].detalle.IdVenta \notin 1..Len(db.ventas)
       THEN Rechazar(p, "error")
       ELSE CommitYResponder(p, <<[k |-> "insDet", rec |-> loc[p].detalle]>>,
                        Len(db.detVentas) + 1)

(* lines 354-364: DELETE /api/detalleventas/:id *)
DeleteDetalle(p, id) ==
    /\ pc[p] = "idle"
    /\ IF ~DetalleExiste(db, id)
       THEN RechazarAlInicio(p, "deleteDetalle", id, "referential")
       ELSE Begin(p, "deleteDetalle", id, "dd_destroy", [detalle |-> db.detVentas[id]])

(* lines 366-369: detalle.destroy({ transaction }), commit *)
DdDestroy(p) ==
    /\ pc[p] = "dd_destroy"
    /\ CommitYResponder(p, <<[k |-> "upd", tabla |-> "detVentas", id |-> loc[p].id,
                              campos |-> DetalleBorrado]>>, loc[p].id)

----------------------------------------------------------------------------
(* productos.controller.js: actualizarStock (PATCH /api/productos/:id/stock) *)

(* lines 311-324 *)
ActualizarStock(p, id, tallaId, cantidad) ==
    /\ pc[p] = "idle"
    /\ IF ~TallaExiste(db, tallaId, id)
       THEN RechazarAlInicio(p, "actualizarStock", tallaId, "referential")
       ELSE Begin(p, "actualizarStock", tallaId, "as_save", [cantidad |-> cantidad])

(* lines 326-330: talla.Cantidad = cantidad; talla.save({ transaction }),  *)
(* which runs the model's validators (Cantidad min 0), then commit          *)
AsSave(p) ==
    /\ pc[p] = "as_save"
    /\ IF loc[p].cantidad < 0
       THEN Rechazar(p, "error")
       ELSE CommitYResponder(p, <<[k |-> "set", col |-> "talla", id |-> loc[p].id,
                                   v |-> loc[p].cantidad]>>, loc[p].id)

----------------------------------------------------------------------------
(* tallas.controller.js: update (PUT /api/tallas/:id) with a Cantidad *)

(* lines 259-275 *)
UpdateTalla(p, id, Cantidad) ==
    /\ pc[p] = "idle"
    /\ IF id \notin Tallas
       THEN RechazarAlInicio(p, "updateTalla", id, "referential")
       ELSE Begin(p, "updateTalla", id, "ut_update", [Cantidad |-> Cantidad])

(* lines 277-283: talla.update(updateData, { transaction }), commit *)
UtUpdate(p) ==
    /\ pc[p] = "ut_update"
    /\ IF loc[p].Cantidad < 0
       THEN Rechazar(p, "error")
       ELSE CommitYResponder(p, <<[k |-> "set", col |-> "talla", id |-> loc[p].id,
                                   v |-> loc[p].Cantidad]>>, loc[p].id)

----------------------------------------------------------------------------
(* detalleVentas.controller.js: marcarDevuelto, update *)

(* lines 235-250 *)
MarcarDevuelto(p, id, cantidadDevuelta) ==
    /\ pc[p] = "idle"
    /\ IF ~DetalleExiste(db, id)
       THEN RechazarAlInicio(p, "marcarDevuelto", id, "referential")
       ELSE IF cantidadDevuelta > db.detVentas[id].Cantidad
       THEN RechazarAlInicio(p, "marcarDevuelto", id, "validation")
       ELSE Begin(p, "marcarDevuelto", id, "md_update",
                  [cantidadDevuelta |-> cantidadDevuelta, detalle |-> db.detVentas[id]])

(* lines 252-258 *)
MdUpdate(p) ==
    /\ pc[p] = "md_update"
    /\ LET l == loc[p]
       IN CommitYResponder(p,
            <<[k |-> "upd", tabla |-> "detVentas", id |-> l.id,
               campos |-> [CantidadDevuelta |-> l.cantidadDevuelta,
                           Devuelto |-> (l.cantidadDevuelta = l.detalle.Cantidad)]]>>,
            l.id)

(* line 328: Cantidad * Precio when req.body lacks one of the two is the   *)
(* product with undefined, Number.NaN; it is held here as a number that no  *)
(* product of a quantity and a price equals.                                *)
NaN == -1

(* lines 319-326: PUT /api/detalleventas/:id; body holds the fields among  *)
(* Cantidad, Precio, IdTalla that req.body carries                          *)
UpdateDetalle(p, id, body) ==
    /\ pc[p] = "idle"
    /\ IF ~DetalleExiste(db, id)
       THEN RechazarAlInicio(p, "updateDetalle", id, "referential")
       ELSE Begin(p, "updateDetalle", id, "ud_update", [body |-> body])

(* lines 328-336: detalle.update leaves out the fields that are undefined. *)
(* A NaN Subtotal is stored by a NUMERIC or FLOAT column and refused by an  *)
(* INTEGER one (catch block): the column's type is the DetalleVenta model's. *)
UdUpdate(p) ==
    /\ pc[p] = "ud_update"
    /\ LET body == loc[p].body
           subtotal == IF {"Cantidad", "Precio"} \subseteq DOMAIN body
                       THEN body.Cantidad * body.Precio ELSE NaN
       IN \E guardado \in (IF subtotal = NaN THEN BOOLEAN ELSE {TRUE}) :
             IF guardado
             THEN CommitYResponder(p,
                    <<[k |-> "upd", tabla |-> "detVentas", id |-> loc[p].id,
                       campos |-> [Subtotal |-> subtotal] @@ body]>>,
                    loc[p].id)
             ELSE Rechazar(p, "error")

----------------------------------------------------------------------------
(* Next-state relations.  The bounds on the number of rows are guards of   *)
(* the requests, not of the handlers.                                       *)

SeqProcs == {"p1"}

NextCrearVenta(P) ==
    \/ \E p \in P, c \in IdsContraparte, n \in 0..MaxLineas, item \in Items :
          Len(db.ventas) + EnCurso("createVenta") < MaxVentas /\ CreateVenta(p, c, n, item)
    \/ \E p \in P : CvItem(p)
    \/ \E p \in P, sig \in Items : CvDecrement(p, sig)
    \/ \E p \in P : CvPersistir(p)

NextAnularVenta(P) ==
    \/ \E p \in P, id \in 1..MaxVentas : AnularVenta(p, id)
    \/ \E p \in P : AvIncrement(p)
    \/ \E p \in P : AvUpdate(p)

NextEstado(P) ==
    \/ \E p \in P, id \in 1..MaxVentas,
          e \in {EstadoCompletada, EstadoPendiente, EstadoAnulada} :
          (\A t \in Tallas : db.talla[t] <= TopeStock) /\ ActualizarEstado(p, id, e)
    \/ \E p \in P : AeUpdate(p)

NextCompras(P) ==
    \/ \E p \in P, c \in IdsContraparte, n \in 0..MaxLineas, item \in ItemsCompra :
          Len(db.compras) + EnCurso("createCompra") < MaxCompras /\ CreateCompra(p, c, n, item)
    \/ \E p \in P : CcItem(p)
    \/ \E p \in P, sig \in ItemsCompra : CcIncrement(p, sig)
    \/ \E p \in P : CcPersistir(p)
    \/ \E p \in P, id \in 1..MaxCompras : AnularCompra(p, id)
    \/ \E p \in P : AcDecrement(p)
    \/ \E p \in P : AcUpdate(p)

NextCrearDevolucion(P) ==
    \/ \E p \in P, v \in 0..MaxVentas, pr \in Productos, c \in 0..MaxCant :
          Len(db.devs) + EnCurso("createDevolucion") < MaxDevoluciones
          /\ CreateDevolucion(p, v, pr, c)
    \/ \E p \in P : CdSuma(p)
    \/ \E p \in P : CdEscribir(p)
    \/ \E p \in P : CdCommit(p)

NextToggle(P) ==
    \/ \E p \in P, id \in 1..MaxDevoluciones : ToggleDevolucionStatus(p, id)
    \/ \E p \in P : TdStock(p)
    \/ \E p \in P : TdUpdate(p)

NextAnularDevolucion(P) ==
    \/ \E p \in P, id \in 1..MaxDevoluciones : AnularDevolucion(p, id)
    \/ \E p \in P : AdStock(p)
    \/ \E p \in P : AdUpdate(p)

NextGestionDevolucion(P) ==
    \/ \E p \in P, id \in 1..MaxDevoluciones, e \in BOOLEAN : UpdateDevolucion(p, id, e)
    \/ \E p \in P : UpdUpdate(p)
    \/ \E p \in P, id \in 1..MaxDevoluciones : ProcesarReembolso(p, id)
    \/ \E p \in P : PrUpdate(p)

(* A new catalogue price: the product's price or one more *)
NextPrecio(P) ==
    \/ \E p \in P, pr \in Productos :
          \E v \in {PrecioVenta[pr], PrecioVenta[pr] + 1} : PatchProducto(p, pr, v)
    \/ \E p \in P : PpUpdate(p)

(* A purchase of one valid line, and its cancellation *)
NextCompraSimple(P) ==
    \/ \E p \in P, t \in Tallas, c \in 1..MaxCant :
          /\ Len(db.compras) + EnCurso("createCompra") < MaxCompras
          /\ CreateCompra(p, 1, 1, [IdProducto |-> TallaProducto[t], IdTalla |-> t,
                                    Cantidad |-> c, PrecioCompra |-> 1])
    \/ \E p \in P : CcItem(p)
    \/ \E p \in P : CcIncrement(p, loc[p].item)
    \/ \E p \in P : CcPersistir(p)
    \/ \E p \in P, id \in 1..MaxCompras : AnularCompra(p, id)
    \/ \E p \in P : AcDecrement(p)
    \/ \E p \in P : AcUpdate(p)

(* The routes that activate and deactivate a product and a size *)
NextCatalogo(P) ==
    \/ \E p \in P, id \in Productos : ToggleProductoStatus(p, id)
    \/ \E p \in P : TpsSave(p)
    \/ \E p \in P, id \in Tallas : ToggleStatus(p, id)
    \/ \E p \in P : TsUpdate(p)

(* The routes that add a line to a sale and remove a line *)
NextLineas(P) ==
    \/ \E p \in P, v \in 0..MaxVentas, t \in Tallas, c \in 0..1 :
          /\ Len(db.detVentas) + EnCurso("createDetalle") < MaxVentas * MaxLineas
          /\ CreateDetalle(p, v, TallaProducto[t], t, c, PrecioVenta[TallaProducto[t]])
    \/ \E p \in P : CdtCreate(p)
    \/ \E p \in P, id \in 1..(MaxVentas * MaxLineas) : DeleteDetalle(p, id)
    \/ \E p \in P : DdDestroy(p)

(* The catalogue routes that write a size's Cantidad *)
CantidadesDirectas == {-1, 0, StockInicial + 1}

NextStockDirecto(P) ==
    \/ \E p \in P, pr \in Productos, t \in Tallas \cup {0}, c \in CantidadesDirectas :
          ActualizarStock(p, pr, t, c)
    \/ \E p \in P : AsSave(p)
    \/ \E p \in P, t \in Tallas \cup {0}, c \in CantidadesDirectas : UpdateTalla(p, t, c)
    \/ \E p \in P : UtUpdate(p)

NextDetalles(P) ==
    \/ \E p \in P, id \in 1..(MaxVentas * MaxLineas), c \in 0..(MaxCant + 1) :
          MarcarDevuelto(p, id, c)
    \/ \E p \in P : MdUpdate(p)
    \/ \E p \in P, id \in 1..(MaxVentas * MaxLineas), c \in 1..MaxCant :
          id <= Len(db.detVentas)
          /\ UpdateDetalle(p, id, [Cantidad |-> c, Precio |-> db.detVentas[id].Precio,
                                   IdTalla |-> db.detVentas[id].IdTalla])
    \/ \E p \in P : UdUpdate(p)

(* Orders: sales and purchases, one request at a time *)
Next ==
    \/ NextCrearVenta(SeqProcs)
    \/ NextAnularVenta(SeqProcs)
    \/ NextCompras(SeqProcs)
    \/ \E p \in SeqProcs : Fallo(p)

Spec == Init /\ [][Next]_vars

(* Sales and the route that sets a sale's state, one request at a time *)
NextVentaEstado ==
    \/ NextCrearVenta(SeqProcs)
    \/ NextAnularVenta(SeqProcs)
    \/ NextEstado(SeqProcs)

SpecEstado == Init /\ [][NextVentaEstado]_vars

(* Returns against the lines of a sale, one request at a time *)
NextDev ==
    \/ NextCrearVenta(SeqProcs)
    \/ NextCrearDevolucion(SeqProcs)
    \/ NextToggle(SeqProcs)
    \/ NextAnularDevolucion(SeqProcs)

SpecDev == Init /\ [][NextDev]_vars

(* Orders and returns with failures.  The run has a sale (and its         *)
(* returns) or a purchase, not both.                                        *)
NextFallo ==
    \/ Len(db.compras) = 0 /\ NextCrearVenta(SeqProcs)
    \/ NextAnularVenta(SeqProcs)
    \/ Len(db.ventas) = 0 /\ NextCompras(SeqProcs)
    \/ NextCrearDevolucion(SeqProcs)
    \/ NextToggle(SeqProcs)
    \/ \E p \in SeqProcs : Fallo(p)

SpecFallo == Init /\ [][NextFallo]_vars

(* A sale, one return and the administration routes of the sale lines *)
NextDetalle ==
    \/ NextCrearVenta(SeqProcs)
    \/ Len(db.devs) = 0 /\ NextCrearDevolucion(SeqProcs)
    \/ NextDetalles(SeqProcs)

SpecDetalle == Init /\ [][NextDetalle]_vars

(* Sales whose lines may ask for more than the stock of the size *)
ItemsAmplios == [IdProducto : Productos, IdTalla : Tallas, Cantidad : 0..(StockInicial + 1)]

NextVentaAmplia(P) ==
    \/ \E p \in P, c \in IdsContraparte, n \in 0..MaxLineas, item \in ItemsAmplios :
          Len(db.ventas) + EnCurso("createVenta") < MaxVentas /\ CreateVenta(p, c, n, item)
    \/ \E p \in P : CvItem(p)
    \/ \E p \in P, sig \in ItemsAmplios : CvDecrement(p, sig)
    \/ \E p \in P : CvPersistir(p)

NextVentaCompleta(P) ==
    \/ \E p \in P, c \in IdsContraparte, n \in 0..MaxLineas, item \in ItemsAmplios :
          /\ Len(db.ventas) + EnCurso("createVenta") + EnCurso("createVentaCompleta")
               < MaxVentas
          /\ CreateVentaCompleta(p, c, n, item)
    \/ \E p \in P : CvcItem(p)
    \/ \E p \in P, sig \in ItemsAmplios : CvcDecrement(p, sig)
    \/ \E p \in P : CvcPersistir(p)

(* The entry points that create an order, one request at a time.  The run  *)
(* has a sale or a purchase, not both.                                      *)
NextEntrada ==
    \/ Len(db.compras) = 0 /\ NextVentaAmplia(SeqProcs)
    \/ Len(db.compras) = 0 /\ NextVentaCompleta(SeqProcs)
    \/ Len(db.ventas) = 0 /\ NextCompras(SeqProcs)

SpecEntrada == Init /\ [][NextEntrada]_vars

(* Orders and returns with every way a request is rejected.  The run has   *)
(* a sale (and its returns) or a purchase, not both.                        *)
NextRechazo ==
    \/ Len(db.compras) = 0 /\ NextVentaAmplia(SeqProcs)
    \/ NextAnularVenta(SeqProcs)
    \/ Len(db.ventas) = 0 /\ NextCompras(SeqProcs)
    \/ NextCrearDevolucion(SeqProcs)
    \/ NextAnularDevolucion(SeqProcs)

SpecRechazo == Init /\ [][NextRechazo]_vars

(* A sale, one return, everything that is done to a return afterwards,   *)
(* and the catalogue price of the products.  A return's state is toggled  *)
(* or annulled while the product counters are within MaxCant of their      *)
(* first value.                                                             *)
(* Sales of one line that is accepted *)
NextVentaSimple(P) ==
    \/ \E p \in P, t \in Tallas, c \in 1..MaxCant :
          /\ Len(db.ventas) + EnCurso("createVenta") < MaxVentas
          /\ CreateVenta(p, 1, 1, [IdProducto |-> TallaProducto[t], IdTalla |-> t,
                                   Cantidad |-> c])
    \/ \E p \in P : CvItem(p)
    \/ \E p \in P : CvDecrement(p, loc[p].item)
    \/ \E p \in P : CvPersistir(p)

StockEnRango ==
    \A pr \in Productos : db.stock[pr] \in (StockInicial - MaxCant)..(StockInicial + MaxCant)

NextMonto ==
    \/ NextVentaSimple(SeqProcs)
    \/ Len(db.devs) = 0 /\ NextCrearDevolucion(SeqProcs)
    \/ StockEnRango /\ NextToggle(SeqProcs)
    \/ StockEnRango /\ NextAnularDevolucion(SeqProcs)
    \/ NextGestionDevolucion(SeqProcs)
    \/ NextPrecio(SeqProcs)

SpecMonto == Init /\ [][NextMonto]_vars

(* Sales, their annulment, returns and the catalogue routes of the sizes *)
NextStock ==
    \/ NextVentaSimple(SeqProcs)
    \/ NextAnularVenta(SeqProcs)
    \/ Len(db.devs) = 0 /\ NextCrearDevolucion(SeqProcs)
    \/ NextStockDirecto(SeqProcs)

SpecStock == Init /\ [][NextStock]_vars

(* A sale of one line, one return of it and every route of the sale lines *)
NextLinea ==
    \/ NextVentaSimple(SeqProcs)
    \/ Len(db.devs) = 0 /\ NextCrearDevolucion(SeqProcs)
    \/ NextDetalles(SeqProcs)
    \/ NextLineas(SeqProcs)

SpecLinea == Init /\ [][NextLinea]_vars

(* Two sales of one line each, requested once by each of two callers that *)
(* may overlap.                                                             *)
NextCarreraVentas ==
    \/ \E p \in Procs, t \in Tallas, c \in 1..StockInicial :
          /\ resp[p].op = "none"
          /\ CreateVenta(p, 1, 1, [IdProducto |-> TallaProducto[t], IdTalla |-> t,
                                   Cantidad |-> c])
    \/ \E p \in Procs : CvItem(p)
    \/ \E p \in Procs : CvDecrement(p, loc[p].item)
    \/ \E p \in Procs : CvPersistir(p)

SpecCarreraVentas == Init /\ [][NextCarreraVentas]_vars

(* A sale, then returns requested by two callers that may overlap *)
NextCarreraDev ==
    \/ NextCrearVenta(SeqProcs)
    \/ NextCrearDevolucion(Procs)

SpecCarreraDev == Init /\ [][NextCarreraDev]_vars

(* Orders, their cancellation and the catalogue routes that deactivate   *)
(* and reprice what the orders' lines name                                  *)
NextCambioDeCatalogo ==
    \/ Len(db.compras) = 0 /\ NextVentaSimple(SeqProcs)
    \/ NextAnularVenta(SeqProcs)
    \/ Len(db.ventas) = 0 /\ NextCompraSimple(SeqProcs)
    \/ NextCatalogo(SeqProcs)
    \/ NextPrecio(SeqProcs)

SpecCambioDeCatalogo == Init /\ [][NextCambioDeCatalogo]_vars

(* Requests that overlap: sales of two lines of one unit in either order  *)
(* of the sizes, returns of them, and a purchase with its cancellation.    *)
MaxVentasALaVez == 2

ItemsUnidad ==
    {[IdProducto |-> TallaProducto[t], IdTalla |-> t, Cantidad |-> 1] : t \in Tallas}

(* The continuation of handler p after an await *)
Paso(p) ==
    \/ CvItem(p)
    \/ \E sig \in ItemsUnidad : CvDecrement(p, sig)
    \/ CvPersistir(p)
    \/ CdSuma(p)
    \/ CdEscribir(p)
    \/ CdCommit(p)
    \/ CcItem(p)
    \/ CcIncrement(p, loc[p].item)
    \/ CcPersistir(p)
    \/ AcDecrement(p)
    \/ AcUpdate(p)

NextVivacidad ==
    \/ \E p \in Procs, item \in ItemsUnidad :
          /\ resp[p].op = "none"
          /\ Len(db.compras) + EnCurso("createCompra") = 0
          /\ Len(db.ventas) + EnCurso("createVenta") < MaxVentasALaVez
          /\ CreateVenta(p, 1, MaxLineas, item)
    \/ \E p \in Procs, v \in 1..MaxVentasALaVez, pr \in Productos :
          /\ resp[p].op = "createVenta"
          /\ Len(db.devs) + EnCurso("createDevolucion") < MaxDevoluciones
          /\ CreateDevolucion(p, v, pr, 1)
    \/ \E p \in SeqProcs, t \in Tallas :
          /\ Len(db.ventas) + EnCurso("createVenta") = 0
          /\ Len(db.compras) + EnCurso("createCompra") < MaxCompras
          /\ CreateCompra(p, 1, 1, [IdProducto |-> TallaProducto[t], IdTalla |-> t,
                                    Cantidad |-> 1, PrecioCompra |-> 1])
    \/ \E p \in Procs, id \in 1..MaxCompras :
          resp[p].op # "anularCompra" /\ AnularCompra(p, id)
    \/ \E p \in Procs : Paso(p)
    \/ \E p \in Procs : AbortoPorInterbloqueo(p)

(* The event loop runs every continuation whose await has settled, and the *)
(* deadlock detector ends every cycle of waiting transactions.              *)
SpecVivacidad ==
    /\ Init /\ [][NextVivacidad]_vars
    /\ \A p \in Procs : WF_vars(Paso(p))
    /\ \A p \in Procs : WF_vars(AbortoPorInterbloqueo(p))

(* One request of one line given to createVenta (p1) and to               *)
(* createVentaCompleta (p2) on the same committed state: neither commits   *)
(* before the other has read the state and decided.                         *)
OpsDeVenta == {"createVenta", "createVentaCompleta"}

SinPedir(p) == pc[p] = "idle" /\ resp[p].op \notin OpsDeVenta

Decidida(p) ==
    \/ resp[p].op \in OpsDeVenta
    \/ pc[p] \in {"cv_dec", "cv_persist", "cvc_dec", "cvc_persist"}

NextEquivalencia ==
    \/ resp["p1"].op \notin OpsDeVenta /\ SinPedir("p2") /\ NextCatalogo(SeqProcs)
    \/ \E item \in ItemsAmplios :
          SinPedir("p1") /\ SinPedir("p2") /\ CreateVenta("p1", 1, 1, item)
    \/ /\ pc["p1"] = "cv_item" /\ SinPedir("p2")
       /\ CreateVentaCompleta("p2", 1, 1, loc["p1"].item)
    \/ ~SinPedir("p2") /\ CvItem("p1")
    \/ CvcItem("p2")
    \/ CvDecrement("p1", loc["p1"].item)
    \/ CvcDecrement("p2", loc["p2"].item)
    \/ Decidida("p2") /\ CvPersistir("p1")
    \/ Decidida("p1") /\ CvcPersistir("p2")

SpecEquivalencia == Init /\ [][NextEquivalencia]_vars

(* The bodies a PUT /api/detalleventas/:id may carry: all three fields, or *)
(* only some of them                                                        *)
CuerposDeDetalle ==
    [Cantidad : 1..MaxCant, Precio : 1..2, IdTalla : Tallas]
      \cup [Cantidad : 1..MaxCant, Precio : 1..2]
      \cup [Cantidad : 1..MaxCant] \cup [Precio : 1..2] \cup [IdTalla : Tallas]

(* A sale and a purchase of one line each, and the routes that add, rewrite *)
(* and remove a sale line, one request at a time                             *)
NextSubtotal ==
    \/ Len(db.compras) = 0 /\ NextVentaSimple(SeqProcs)
    \/ Len(db.detVentas) = 0 /\ NextCompraSimple(SeqProcs)
    \/ NextLineas(SeqProcs)
    \/ \E p \in SeqProcs, id \in 1..(MaxVentas * MaxLineas), body \in CuerposDeDetalle :
          UpdateDetalle(p, id, body)
    \/ \E p \in SeqProcs : UdUpdate(p)

SpecSubtotal == Init /\ [][NextSubtotal]_vars

(* One sale or one purchase, and two requests that cancel it at once *)
NextCarreraAnular ==
    \/ Len(db.compras) = 0 /\ NextVentaSimple(SeqProcs)
    \/ NextAnularVenta(Procs)
    \/ Len(db.ventas) = 0 /\ NextCompras(Procs)

SpecCarreraAnular == Init /\ [][NextCarreraAnular]_vars

----------------------------------------------------------------------------
(* Vocabulary of the properties *)

(* The step in which handler p sends a response *)
Responde(p) == pc'[p] = "idle" /\ (pc[p] # "idle" \/ resp'[p] # resp[p])

(* Units of size t in the lines dets *)
UnidadesEnTalla(dets, t) ==
    SumSeq([i \in 1..Len(dets) |-> IF dets[i].IdTalla = t THEN dets[i].Cantidad ELSE 0])

(* Units sold of product pr in sale v, over all its lines *)
UnidadesVendidas(d, v, pr) ==
    SumSeq([i \in 1..Len(d.detVentas) |->
              IF d.detVentas[i].IdVenta = v /\ d.detVentas[i].IdProducto = pr
              THEN d.detVentas[i].Cantidad ELSE 0])

(* Units of product pr in sale v that its lines record as returned *)
UnidadesDevueltas(d, v, pr) ==
    SumSeq([i \in 1..Len(d.detVentas) |->
              IF d.detVentas[i].IdVenta = v /\ d.detVentas[i].IdProducto = pr
              THEN d.detVentas[i].CantidadDevuelta ELSE 0])

(* Every caller's last response is the success of handler op *)
(* Units of size t in the lines of the sales that are not annulled *)
VendidasActivas(d, t) ==
    SumSeq([i \in 1..Len(d.detVentas) |->
              IF /\ d.detVentas[i].IdTalla = t
                 /\ d.detVentas[i].IdVenta \in 1..Len(d.ventas)
                 /\ d.ventas[d.detVentas[i].IdVenta].IdEstado # EstadoAnulada
              THEN d.detVentas[i].Cantidad ELSE 0])

(* Units of size t in the lines of the purchases that are active *)
CompradasActivas(d, t) ==
    SumSeq([i \in 1..Len(d.detCompras) |->
              IF d.detCompras[i].IdTalla = t /\ d.compras[d.detCompras[i].IdCompra].Estado
              THEN d.detCompras[i].Cantidad ELSE 0])

(* The stock of size t that the orders of d account for *)
StockSegunOrdenes(d, t) ==
    DbInicial.talla[t] + CompradasActivas(d, t) - VendidasActivas(d, t)

TodosOk(op) == \A p \in Procs : resp[p].op = op /\ resp[p].st = "ok"

----------------------------------------------------------------------------
(* C1: after any sequence of create/cancel calls on purchase and sale      *)
(* orders, every size's stock (Tallas.Cantidad) is >= 0 in every committed *)
(* state.                                                                   *)
C1_StockNoNegativo == \A t \in Tallas : db.talla[t] >= 0

(* C2: two createVenta calls that overlap on one size do not both succeed *)
(* when their quantities together exceed the size's stock: if both         *)
(* succeeded, the units they sold of each size are within the stock the    *)
(* size had, and the size's stock is what is left, never negative.          *)
C2_CarreraDeVentas ==
    TodosOk("createVenta") =>
        \A t \in Tallas :
            /\ UnidadesEnTalla(db.detVentas, t) <= StockInicial
            /\ db.talla[t] = StockInicial - UnidadesEnTalla(db.detVentas, t)
            /\ db.talla[t] >= 0

(* C3: after any sequence of createDevolucion and toggleDevolucionStatus  *)
(* calls, the active returns of a product of a sale add up to at most the  *)
(* units the sale's lines sold of it.                                       *)
C3_DevolucionesAcotadas ==
    \A v \in 1..Len(db.ventas), pr \in Productos :
        SumaDevolucionesActivas(db, v, pr) <= UnidadesVendidas(db, v, pr)

(* C4: in every committed state the CantidadDevuelta of the lines of a    *)
(* sale for a product equals the sum of the active returns of that product *)
(* in that sale.                                                            *)
C4_CantidadDevueltaEsLaSuma ==
    \A v \in 1..Len(db.ventas), pr \in Productos :
        UnidadesDevueltas(db, v, pr) = SumaDevolucionesActivas(db, v, pr)

(* C5: in every committed state every sale line has                        *)
(* 0 <= CantidadDevuelta <= Cantidad.                                       *)
C5_CantidadDevueltaEnRango ==
    \A i \in 1..Len(db.detVentas) :
        /\ 0 <= db.detVentas[i].CantidadDevuelta
        /\ db.detVentas[i].CantidadDevuelta <= db.detVentas[i].Cantidad

(* C6: two createDevolucion calls that overlap on one sale line do not    *)
(* both succeed when their quantities together exceed what is left of the  *)
(* line: if both succeeded, the active returns are within the units sold.   *)
C6_CarreraDeDevoluciones ==
    TodosOk("createDevolucion") =>
        \A v \in 1..Len(db.ventas), pr \in Productos :
            SumaDevolucionesActivas(db, v, pr) <= UnidadesVendidas(db, v, pr)

(* C11: when a handler of an order or return operation answers with a   *)
(* validation, referential, state or stock error, the committed rows and  *)
(* counters are those the call found, also when the line that is rejected *)
(* comes after lines whose stock write the transaction already holds.      *)
Rechazos == {"validation", "referential", "state", "stock"}

C11_RechazoNoDejaNada ==
    [][\A p \in SeqProcs :
         (Responde(p) /\ resp'[p].st \in Rechazos) => db' = db]_vars

C11_Witness ==
    /\ resp["p1"].op = "createVenta" /\ resp["p1"].st = "stock"
    /\ resp["p1"].escritos = 1
    /\ Len(db.ventas) = 0 /\ db.talla = DbInicial.talla

(* C12: createDevolucion does not succeed when the sale it names is      *)
(* annulled or has no line of the product: a createDevolucion that        *)
(* succeeds found the sale not annulled and with a line of the product.    *)
C12_DevolucionDeVentaActiva ==
    [][\A p \in SeqProcs :
         (Responde(p) /\ resp'[p].op = "createDevolucion" /\ resp'[p].st = "ok") =>
            LET dev == db'.devs[resp'[p].id]
            IN /\ db.ventas[dev.IdVenta].IdEstado # EstadoAnulada
               /\ DetallesCoincidentes(db, dev.IdVenta, dev.IdProducto) # {}]_vars

(* C13: the Monto of a return is its Cantidad times the Precio stored on *)
(* a line of the sale for the product when createDevolucion commits, and   *)
(* no later step (toggle, annul, refund, update of the return, a new       *)
(* catalogue price) changes the Monto of a stored return.                   *)
C13_MontoFijo ==
    [][/\ \A i \in 1..Len(db.devs) : db'.devs[i].Monto = db.devs[i].Monto
       /\ \A i \in (Len(db.devs) + 1)..Len(db'.devs) :
            LET dev == db'.devs[i]
            IN \E dv \in DetallesCoincidentes(db, dev.IdVenta, dev.IdProducto) :
                 dev.Monto = dev.Cantidad * db.detVentas[dv].Precio]_vars

C13_Witness ==
    /\ resp["p1"].op = "procesarReembolso" /\ resp["p1"].st = "ok"
    /\ db.devs[1].Reembolsado
    /\ db.devs[1].Monto = db.devs[1].Cantidad * db.detVentas[1].Precio
    /\ db.precio[db.devs[1].IdProducto] # db.detVentas[1].Precio

(* C14: a sale whose line asks for more than the stock of its size is    *)
(* answered with the stock error, the stock is unchanged, and the message *)
(* names the product, the size, the quantity asked for and the quantity    *)
(* available (so the deficit is the difference of the two).                 *)
C14_MensajeDeStock ==
    [][\A p \in SeqProcs :
         (Responde(p) /\ resp'[p].st = "stock") =>
            LET m == resp'[p].msg
            IN /\ db' = db
               /\ {"Producto", "Talla", "Solicitada", "Disponible"} \subseteq DOMAIN m
               /\ m.Disponible = db.talla[m.Talla]
               /\ m.Solicitada > m.Disponible]_vars

(* C15: a createDevolucion for a line of a sale that is not annulled is  *)
(* accepted exactly when its Cantidad is at most the line's Cantidad minus *)
(* the CantidadDevuelta stored on the line, and is otherwise answered with *)
(* the state error.                                                         *)
C15_AceptaSegunLoDevuelto ==
    [][\A p \in SeqProcs :
         (/\ Responde(p) /\ resp'[p].op = "createDevolucion"
          /\ pc[p] \in {"cd_suma", "cd_commit"}
          /\ db.ventas[loc[p].IdVenta].IdEstado # EstadoAnulada)
         => LET l == loc[p]
                restante == db.detVentas[l.dv].Cantidad
                            - db.detVentas[l.dv].CantidadDevuelta
            IN /\ (resp'[p].st = "ok") <=> (l.Cantidad <= restante)
               /\ resp'[p].st \in {"ok", "state"}]_vars

(* C16: a createCompra that succeeds adds, and a createVenta that         *)
(* succeeds takes, for every size the sum of the Cantidad of the order's   *)
(* lines of that size: each line counts once, and a size with no line      *)
(* keeps its stock.                                                          *)
C16_EfectoEnStock ==
    [][\A p \in SeqProcs :
         (Responde(p) /\ resp'[p].st = "ok"
          /\ resp'[p].op \in {"createVenta", "createCompra"})
         => \A t \in Tallas :
              db'.talla[t] =
                 IF resp'[p].op = "createVenta"
                 THEN db.talla[t] - UnidadesEnTalla(DetallesDeVenta(db', resp'[p].id), t)
                 ELSE db.talla[t] + UnidadesEnTalla(DetallesDeCompra(db', resp'[p].id), t)]_vars

C16_Witness ==
    /\ resp["p1"].op = "createVenta" /\ resp["p1"].st = "ok"
    /\ LET dets == DetallesDeVenta(db, resp["p1"].id)
       IN /\ Len(dets) = 2 /\ dets[1].IdTalla = 1 /\ dets[2].IdTalla = 1
          /\ db.talla[1] = resp["p1"].pre.talla[1] - (dets[1].Cantidad + dets[2].Cantidad)
    /\ db.talla[2] = resp["p1"].pre.talla[2]

(* C17: every handler that creates an order rejects a line whose         *)
(* quantity or unit price is <= 0 before it writes anything: the lines a   *)
(* handler hands to Venta.create / Compra.create, and the lines stored,    *)
(* all have a quantity > 0 and a unit price > 0.                            *)
LineaPositiva(l) ==
    /\ l.Cantidad > 0
    /\ IF "PrecioCompra" \in DOMAIN l THEN l.PrecioCompra > 0 ELSE l.Precio > 0

C17_LineasValidadas ==
    /\ \A p \in Procs :
          pc[p] \in {"cv_dec", "cvc_dec", "cc_inc", "cv_persist", "cvc_persist", "cc_persist"}
             => \A i \in 1..Len(loc[p].dets) : LineaPositiva(loc[p].dets[i])
    /\ \A i \in 1..Len(db.detVentas) : LineaPositiva(db.detVentas[i])
    /\ \A i \in 1..Len(db.detCompras) : LineaPositiva(db.detCompras[i])

(* C18: the Cantidad of a size changes only in the step that commits a   *)
(* createVenta, createVentaCompleta, createCompra, anularVenta or          *)
(* anularCompra; every other step leaves every size's Cantidad as it is.    *)
C18_SoloLasOrdenes ==
    [][db'.talla # db.talla =>
         \E p \in Procs :
            /\ Responde(p) /\ resp'[p].st = "ok"
            /\ resp'[p].op \in {"createVenta", "createVentaCompleta", "createCompra",
                                 "anularVenta", "anularCompra"}]_vars

(* C19: a stored sale line keeps its sale, product, size, Cantidad,       *)
(* Precio and Subtotal and is never removed; its CantidadDevuelta and      *)
(* Devuelto change only when a createDevolucion or a                       *)
(* toggleDevolucionStatus commits; and lines are added only by the commit  *)
(* of the sale they belong to.                                              *)
CamposFijos(l) ==
    <<l.IdVenta, l.IdProducto, l.IdTalla, l.Cantidad, l.Precio, l.Subtotal>>

CamposDeDevolucion(l) == <<l.CantidadDevuelta, l.Devuelto>>

RespondeOk(ops) ==
    \E p \in Procs : Responde(p) /\ resp'[p].st = "ok" /\ resp'[p].op \in ops

C19_LineasInmutables ==
    [][/\ Len(db'.detVentas) >= Len(db.detVentas)
       /\ \A i \in 1..Len(db.detVentas) :
            /\ CamposFijos(db'.detVentas[i]) = CamposFijos(db.detVentas[i])
            /\ CamposDeDevolucion(db'.detVentas[i]) # CamposDeDevolucion(db.detVentas[i])
                 => RespondeOk({"createDevolucion", "toggleDevolucionStatus"})
       /\ Len(db'.detVentas) > Len(db.detVentas) =>
            /\ RespondeOk({"createVenta", "createVentaCompleta"})
            /\ Len(db'.ventas) = Len(db.ventas) + 1
            /\ \A i \in (Len(db.detVentas) + 1)..Len(db'.detVentas) :
                 db'.detVentas[i].IdVenta = Len(db'.ventas)]_vars

(* C20: sale orders, purchase orders and returns are never removed: in   *)
(* every step each of the three tables keeps all the rows it had, a sale   *)
(* and a purchase with their Total and a return with its sale, product and *)
(* Cantidad, so the tables only grow.                                       *)
C20_NuncaSeEliminan ==
    [][/\ Len(db'.ventas) >= Len(db.ventas)
       /\ Len(db'.compras) >= Len(db.compras)
       /\ Len(db'.devs) >= Len(db.devs)
       /\ \A i \in 1..Len(db.ventas) : db'.ventas[i].Total = db.ventas[i].Total
       /\ \A i \in 1..Len(db.compras) : db'.compras[i].Total = db.compras[i].Total
       /\ \A i \in 1..Len(db.devs) :
            <<db'.devs[i].IdVenta, db'.devs[i].IdProducto, db'.devs[i].Cantidad>>
              = <<db.devs[i].IdVenta, db.devs[i].IdProducto, db.devs[i].Cantidad>>]_vars

(* an annulled sale and a deactivated return of it, both still stored *)
C20_Witness ==
    /\ Len(db.ventas) = 1
    /\ db.ventas[1].IdEstado = EstadoAnulada
    /\ Len(db.devs) >= 1
    /\ ~db.devs[1].Estado
    /\ resp["p1"].op \in {"anularVenta", "toggleDevolucionStatus"}
    /\ resp["p1"].st = "ok"

(* C21: a createVenta whose lines name one size several times succeeds   *)
(* only if the Cantidad of those lines together is within the size's       *)
(* stock: when the sum is over the stock the sale is rejected, so no       *)
(* successful sale holds more units of a size than the size had.           *)
C21_LineasRepetidas ==
    [][\A p \in SeqProcs :
         (Responde(p) /\ resp'[p].op = "createVenta" /\ resp'[p].st = "ok")
         => \A t \in Tallas :
              UnidadesEnTalla(DetallesDeVenta(db', resp'[p].id), t) <= db.talla[t]]_vars

(* C22: an anularCompra succeeds only when every size holds at least the *)
(* units the purchase's lines take back from it: a reversal that would     *)
(* leave a size negative is refused, and the purchase stays active with    *)
(* every size's stock unchanged.                                            *)
C22_ReversionSinStock ==
    [][\A p \in SeqProcs :
         (Responde(p) /\ resp'[p].op = "anularCompra"
          /\ resp'[p].id \in 1..Len(db.compras) /\ db.compras[resp'[p].id].Estado
          /\ resp'[p].st # "error"
          /\ \E t \in Tallas :
                db.talla[t] < UnidadesEnTalla(DetallesDeCompra(db, resp'[p].id), t))
         => /\ resp'[p].st = "stock"
            /\ db' = db]_vars

(* C23: of two anularVenta (or two anularCompra) calls that run at once  *)
(* on one active order, at most one answers with success, and the stock of *)
(* each size is reversed once: the committed stock is the initial stock    *)
(* plus the units of the active purchases minus those of the active sales. *)
AnulacionesOk(op, id) ==
    {p \in Procs : resp[p].op = op /\ resp[p].id = id /\ resp[p].st = "ok"}

C23_CarreraDeAnulaciones ==
    /\ \A id \in 1..Len(db.ventas) : Cardinality(AnulacionesOk("anularVenta", id)) <= 1
    /\ \A id \in 1..Len(db.compras) : Cardinality(AnulacionesOk("anularCompra", id)) <= 1
    /\ \A t \in Tallas : db.talla[t] = StockSegunOrdenes(db, t)

(* C24: a toggleDevolucionStatus of an annulled return is refused with a *)
(* state error, and nothing changes, when the active returns of the        *)
(* product in the sale plus this return would exceed the units sold.       *)
C24_ReactivarSinExceder ==
    [][\A p \in SeqProcs :
         (/\ Responde(p) /\ resp'[p].op = "toggleDevolucionStatus"
          /\ resp'[p].id \in 1..Len(db.devs)
          /\ resp'[p].st # "error"
          /\ LET dev == db.devs[resp'[p].id]
             IN /\ ~dev.Estado
                /\ SumaDevolucionesActivas(db, dev.IdVenta, dev.IdProducto) + dev.Cantidad
                     > UnidadesVendidas(db, dev.IdVenta, dev.IdProducto))
         => /\ resp'[p].st = "state"
            /\ db' = db]_vars

(* C25: a toggleDevolucionStatus (or an anularDevolucion) that succeeds  *)
(* on an active return leaves it annulled, lowers the product's Stock by   *)
(* the return's Cantidad and lowers the CantidadDevuelta of the sale's     *)
(* lines of the product by the same Cantidad, in that one commit.           *)
C25_AnularDevolucionCompleta ==
    [][\A p \in SeqProcs :
         (/\ Responde(p)
          /\ resp'[p].op \in {"toggleDevolucionStatus", "anularDevolucion"}
          /\ resp'[p].st = "ok"
          /\ db.devs[resp'[p].id].Estado)
         => LET dev == db.devs[resp'[p].id]
            IN /\ ~db'.devs[resp'[p].id].Estado
               /\ db'.stock[dev.IdProducto] = db.stock[dev.IdProducto] - dev.Cantidad
               /\ UnidadesDevueltas(db', dev.IdVenta, dev.IdProducto)
                    = UnidadesDevueltas(db, dev.IdVenta, dev.IdProducto) - dev.Cantidad]_vars

(* C26: with the order handlers called one after another, in every       *)
(* committed state the stock of each size is its initial stock plus the    *)
(* units of its lines in active purchases minus the units of its lines in  *)
(* sales that are not annulled.                                             *)
C26_StockSegunOrdenes ==
    \A t \in Tallas :
        db.talla[t] = DbInicial.talla[t] + CompradasActivas(db, t) - VendidasActivas(db, t)

(* an annulled purchase of 2 units and an active sale, both on size 1 *)
C26_Witness ==
    /\ Len(db.compras) = 1 /\ ~db.compras[1].Estado
    /\ UnidadesEnTalla(db.detCompras, 1) = 2
    /\ Len(db.ventas) = 1 /\ db.ventas[1].IdEstado # EstadoAnulada
    /\ VendidasActivas(db, 1) > 0
    /\ db.talla[1] = StockInicial - VendidasActivas(db, 1)

(* C27: with the return handlers (create, annul, toggle, update) called  *)
(* one after another, in every committed state the Stock of each product   *)
(* is its initial Stock plus the Cantidad of the product's active returns. *)
DevueltasActivas(d, pr) ==
    SumSeq([i \in 1..Len(d.devs) |->
              IF d.devs[i].IdProducto = pr /\ d.devs[i].Estado
              THEN d.devs[i].Cantidad ELSE 0])

C27_StockSegunDevoluciones ==
    \A pr \in Productos :
        db.stock[pr] = DbInicial.stock[pr] + DevueltasActivas(db, pr)

(* C28: no step of createDevolucion or toggleDevolucionStatus changes    *)
(* the Cantidad of any size; when one of them succeeds the only counter    *)
(* that moves is the Stock of the return's product, by the return's        *)
(* Cantidad.                                                                 *)
OpsDeDevolucion == {"createDevolucion", "toggleDevolucionStatus"}

C28_SoloElAgregado ==
    [][\A p \in SeqProcs :
         (loc[p].op \in OpsDeDevolucion \/ (Responde(p) /\ resp'[p].op \in OpsDeDevolucion))
         => /\ db'.talla = db.talla
            /\ (Responde(p) /\ resp'[p].st = "ok")
                 => LET dev == db'.devs[resp'[p].id]
                        n == IF dev.Estado THEN dev.Cantidad ELSE -dev.Cantidad
                    IN db'.stock = [db.stock EXCEPT ![dev.IdProducto] = @ + n]]_vars

(* a return created and then annulled by the toggle, after a sale of size 1 *)
C28_Witness ==
    /\ resp["p1"].op = "toggleDevolucionStatus" /\ resp["p1"].st = "ok"
    /\ ~db.devs[resp["p1"].id].Estado
    /\ db.stock[db.devs[resp["p1"].id].IdProducto] = StockInicial
    /\ db.talla[1] = StockInicial - UnidadesEnTalla(db.detVentas, 1)
    /\ UnidadesEnTalla(db.detVentas, 1) > 0

(* C29: in every committed state a sale line has Devuelto true exactly   *)
(* when its CantidadDevuelta equals its Cantidad.                           *)
C29_DevueltoSiCompleto ==
    \A i \in 1..Len(db.detVentas) :
        db.detVentas[i].Devuelto
          <=> (db.detVentas[i].CantidadDevuelta = db.detVentas[i].Cantidad)

(* C30: an anularVenta or anularCompra of an active order succeeds       *)
(* whatever the catalogue says now (product or size deactivated, product   *)
(* repriced since the order was created), and gives back or takes back for *)
(* every size exactly the Cantidad of the order's stored lines.             *)
OrdenActiva(d, op, id) ==
    IF op = "anularVenta"
    THEN id \in 1..Len(d.ventas) /\ d.ventas[id].IdEstado # EstadoAnulada
    ELSE id \in 1..Len(d.compras) /\ d.compras[id].Estado

C30_AnularSinRevalidar ==
    [][\A p \in SeqProcs :
         (/\ Responde(p) /\ resp'[p].op \in {"anularVenta", "anularCompra"}
          /\ OrdenActiva(db, resp'[p].op, resp'[p].id)
          /\ resp'[p].st # "error")
         => /\ resp'[p].st = "ok"
            /\ \A t \in Tallas :
                 db'.talla[t] =
                    IF resp'[p].op = "anularVenta"
                    THEN db.talla[t] + UnidadesEnTalla(DetallesDeVenta(db, resp'[p].id), t)
                    ELSE db.talla[t] - UnidadesEnTalla(DetallesDeCompra(db, resp'[p].id), t)]_vars

(* a sale annulled after its product and its size were deactivated and    *)
(* the product was repriced                                                 *)
C30_Witness ==
    /\ resp["p1"].op = "anularVenta" /\ resp["p1"].st = "ok"
    /\ LET dets == DetallesDeVenta(db, resp["p1"].id)
       IN /\ Len(dets) = 1
          /\ ~db.productoEstado[dets[1].IdProducto]
          /\ ~db.tallaEstado[dets[1].IdTalla]
          /\ db.precio[dets[1].IdProducto] # dets[1].Precio
    /\ db.talla = DbInicial.talla

Aceptada(p) ==
    \/ pc[p] \in {"cv_dec", "cv_persist", "cvc_dec", "cvc_persist"}
    \/ resp[p].op \in OpsDeVenta /\ resp[p].st = "ok"

SinIdVenta(l) == [c \in DOMAIN l \ {"IdVenta"} |-> l[c]]

C32_VentaCompletaEquivale ==
    (Decidida("p1") /\ Decidida("p2")) =>
        /\ Aceptada("p1") <=> Aceptada("p2")
        /\ (/\ resp["p1"].op \in OpsDeVenta /\ resp["p1"].st = "ok"
            /\ resp["p2"].op \in OpsDeVenta /\ resp["p2"].st = "ok")
           => LET d1 == DetallesDeVenta(db, resp["p1"].id)
                  d2 == DetallesDeVenta(db, resp["p2"].id)
              IN /\ Len(d1) = Len(d2)
                 /\ \A i \in 1..Len(d1) : SinIdVenta(d1[i]) = SinIdVenta(d2[i])
                 /\ db.ventas[resp["p1"].id].Total = db.ventas[resp["p2"].id].Total
                 /\ \A t \in Tallas :
                      resp["p1"].pre.talla[t] - db.talla[t] = 2 * UnidadesEnTalla(d1, t)

(* C33: two successful toggleDevolucionStatus calls on the same return, one *)
(* right after the other, leave the return's Estado, every product's Stock  *)
(* and every sale line's CantidadDevuelta as they were before the first.    *)
C33_DosTogglesRestauran ==
    [][\A p \in SeqProcs :
         (/\ Responde(p)
          /\ resp[p].op = "toggleDevolucionStatus" /\ resp[p].st = "ok"
          /\ resp'[p].op = "toggleDevolucionStatus" /\ resp'[p].st = "ok"
          /\ resp'[p].id = resp[p].id)
         => /\ db'.devs[resp[p].id].Estado = resp[p].pre.devs[resp[p].id]
            /\ db'.stock = resp[p].pre.stock
            /\ \A i \in 1..Len(db'.detVentas) :
                   db'.detVentas[i].CantidadDevuelta = resp[p].pre.devueltas[i]]_vars

(* The second toggle has answered: the return is active again, over a line *)
(* that carries returned units.                                             *)
C33_Witness ==
    /\ resp["p1"].op = "toggleDevolucionStatus" /\ resp["p1"].st = "ok"
    /\ resp["p1"].id \in 1..Len(resp["p1"].pre.devs)
    /\ ~resp["p1"].pre.devs[resp["p1"].id]
    /\ db.devs[resp["p1"].id].Estado
    /\ db.devs[resp["p1"].id].Cantidad > 0
    /\ \E i \in 1..Len(db.detVentas) : db.detVentas[i].CantidadDevuelta > 0

(* C34: createCompra immediately followed by anularCompra of the purchase  *)
(* it created leaves every size named by the purchase's lines with the     *)
(* stock it had before the purchase.                                        *)
C34_CompraYAnulacion ==
    [][\A p \in SeqProcs :
         (/\ Responde(p)
          /\ resp[p].op = "createCompra" /\ resp[p].st = "ok"
          /\ resp'[p].op = "anularCompra" /\ resp'[p].id = resp[p].id
          /\ resp'[p].st = "ok")
         => LET dets == DetallesDeCompra(db', resp[p].id)
            IN \A j \in 1..Len(dets) :
                  db'.talla[dets[j].IdTalla] = resp[p].pre.talla[dets[j].IdTalla]]_vars

(* A purchase of two lines on one size has been cancelled, and the stock of *)
(* every size is the initial one.                                            *)
C34_Witness ==
    /\ resp["p1"].op = "anularCompra" /\ resp["p1"].st = "ok"
    /\ Len(db.ventas) = 0 /\ Len(db.compras) = 1
    /\ LET dets == DetallesDeCompra(db, resp["p1"].id)
       IN Len(dets) = 2 /\ dets[1].IdTalla = dets[2].IdTalla
    /\ db.talla = DbInicial.talla

(* C35: in every committed state the Subtotal of every sale line is its   *)
(* Cantidad times its Precio, and the Subtotal of every purchase line is its *)
(* Cantidad times its PrecioCompra.                                          *)
C35_SubtotalEsCantidadPorPrecio ==
    /\ \A i \in 1..Len(db.detVentas) :
          DetalleExiste(db, i) =>
             db.detVentas[i].Subtotal = db.detVentas[i].Cantidad * db.detVentas[i].Precio
    /\ \A i \in 1..Len(db.detCompras) :
          db.detCompras[i].Subtotal
             = db.detCompras[i].Cantidad * db.detCompras[i].PrecioCompra

(* C36: anularDevolucion on a return that is annulled when the call is    *)
(* made is rejected with a state error and changes no row and no counter;   *)
(* an anularDevolucion that succeeds was made on an active return, marks it *)
(* annulled and takes the return's Cantidad from its product's Stock, once. *)
C36_AnuladaAlLlamar(p) ==
    LET d == IF pc[p] = "idle" THEN db ELSE loc[p].pre
    IN resp'[p].id \in 1..Len(d.devs) /\ ~d.devs[resp'[p].id].Estado

C36_AnularUnaVez ==
    [][\A p \in SeqProcs :
         (Responde(p) /\ resp'[p].op = "anularDevolucion") =>
            /\ C36_AnuladaAlLlamar(p) => (resp'[p].st = "state" /\ db' = db)
            /\ resp'[p].st = "ok" =>
                  LET dev == db.devs[resp'[p].id]
                  IN /\ dev.Estado /\ ~db'.devs[resp'[p].id].Estado
                     /\ db'.stock = [db.stock EXCEPT ![dev.IdProducto] = @ - dev.Cantidad]
                     /\ db'.talla = db.talla]_vars

(* The second anularDevolucion of a return has been rejected: the return is *)
(* annulled and its product's Stock is the initial one.                      *)
C36_Witness ==
    /\ resp["p1"].op = "anularDevolucion" /\ resp["p1"].st = "state"
    /\ resp["p1"].id \in 1..Len(db.devs)
    /\ ~db.devs[resp["p1"].id].Estado
    /\ db.devs[resp["p1"].id].Cantidad > 0
    /\ db.stock[db.devs[resp["p1"].id].IdProducto] = StockInicial
    /\ db.stock = resp["p1"].pre.stock

(* C37: procesarReembolso on a return that is annulled or already         *)
(* refunded when the call is made is rejected with a state error and        *)
(* changes nothing; one that succeeds was made on an active return not yet  *)
(* refunded; and no step takes a return's Reembolsado from true to false.    *)
C37_NoReembolsableAlLlamar(p) ==
    LET d == IF pc[p] = "idle" THEN db ELSE loc[p].pre
        id == resp'[p].id
    IN id \in 1..Len(d.devs) /\ (~d.devs[id].Estado \/ d.devs[id].Reembolsado)

C37_ReembolsoUnaVez ==
    [][/\ \A p \in SeqProcs :
            (Responde(p) /\ resp'[p].op = "procesarReembolso") =>
               /\ C37_NoReembolsableAlLlamar(p) => (resp'[p].st = "state" /\ db' = db)
               /\ resp'[p].st = "ok" =>
                     /\ db.devs[resp'[p].id].Estado /\ ~db.devs[resp'[p].id].Reembolsado
                     /\ db'.devs[resp'[p].id].Reembolsado
       /\ \A i \in 1..Len(db.devs) :
            db.devs[i].Reembolsado => db'.devs[i].Reembolsado]_vars

(* A second procesarReembolso of an active, refunded return was rejected *)
C37_Witness ==
    /\ resp["p1"].op = "procesarReembolso" /\ resp["p1"].st = "state"
    /\ resp["p1"].id \in 1..Len(db.devs)
    /\ db.devs[resp["p1"].id].Estado
    /\ db.devs[resp["p1"].id].Reembolsado

(* C7: a second cancel of the same order right after a successful one is   *)
(* rejected with a state error and changes nothing, so that over both      *)
(* calls each size's stock is reversed exactly once; and a cancel of an    *)
(* active order is never rejected.                                          *)
C7_Reversion(p) ==
    LET venta == resp[p].op = "anularVenta"
        dets == IF venta THEN DetallesDeVenta(db, resp[p].id)
                ELSE DetallesDeCompra(db, resp[p].id)
    IN \A t \in Tallas :
         db'.talla[t] = resp[p].pre.talla[t]
                        + (IF venta THEN 1 ELSE -1) * UnidadesEnTalla(dets, t)

C7_ActivaAlLlamar(p) ==
    LET d == IF pc[p] = "idle" THEN db ELSE loc[p].pre
        id == resp'[p].id
    IN IF resp'[p].op = "anularVenta"
       THEN id \in 1..Len(d.ventas) /\ d.ventas[id].IdEstado # EstadoAnulada
       ELSE id \in 1..Len(d.compras) /\ d.compras[id].Estado

C7_CancelarDosVeces ==
    [][\A p \in SeqProcs :
         (Responde(p) /\ resp'[p].op \in {"anularVenta", "anularCompra"}) =>
            /\ (resp[p].op = resp'[p].op /\ resp[p].id = resp'[p].id /\ resp[p].st = "ok")
                 => (resp'[p].st = "state" /\ db' = db /\ C7_Reversion(p))
            /\ C7_ActivaAlLlamar(p) => resp'[p].st \in {"ok", "error"}]_vars

C7_Witness ==
    /\ resp["p1"].op = "anularVenta" /\ resp["p1"].st = "state"
    /\ db.ventas[resp["p1"].id].IdEstado = EstadoAnulada
    /\ \E t \in Tallas : db.talla[t] = StockInicial

(* C8: once a sale is cancelled it stays cancelled, whatever is called *)
C8_AnuladaEsTerminal ==
    [][\A v \in 1..Len(db.ventas) :
         db.ventas[v].IdEstado = EstadoAnulada => db'.ventas[v].IdEstado = EstadoAnulada]_vars

(* C9: createVenta immediately followed by anularVenta of the sale it      *)
(* created leaves every size's stock as it was before the sale, for any    *)
(* number of lines, several lines of the same size included.                *)
C9_VentaYAnulacion ==
    [][\A p \in SeqProcs :
         (/\ Responde(p)
          /\ resp[p].op = "createVenta" /\ resp[p].st = "ok"
          /\ resp'[p].op = "anularVenta" /\ resp'[p].id = resp[p].id
          /\ resp'[p].st = "ok")
         => db'.talla = resp[p].pre.talla]_vars

C9_Witness ==
    /\ resp["p1"].op = "anularVenta" /\ resp["p1"].st = "ok"
    /\ LET dets == DetallesDeVenta(db, resp["p1"].id)
       IN Len(dets) = 2 /\ dets[1].IdTalla = dets[2].IdTalla
    /\ db.talla = DbInicial.talla

(* C10: when a handler of an order or return operation ends in its catch  *)
(* block (a storage error or a lock-wait abort at any of its awaits), the  *)
(* committed rows and counters are those the call started from.             *)
C10_FalloNoDejaNada ==
    [][\A p \in SeqProcs :
         (Responde(p) /\ resp'[p].st = "error") => db' = loc[p].pre]_vars

C10_Witness ==
    /\ resp["p1"].op = "createDevolucion" /\ resp["p1"].st = "error"
    /\ resp["p1"].at = "cd_commit"
    /\ Len(db.devs) = 0 /\ db.stock = DbInicial.stock

====
